---- MODULE Spec2Model ----
(***************************************************************************)
(* NeaCanvas: the rendering-optimisation and spatial-indexing core.        *)
(*                                                                         *)
(*   QuadTree        src/src/framework/utils/SpatialIndex.ts               *)
(*   NeaSmart        src/src/framework/NeaRender.ts (batcher, dirty        *)
(*                   regions, canvas pool) and src/unnamed/part_004 (the   *)
(*                   retry-capable batcher)                                *)
(*   NeaInteractive  src/src/framework/NeaInteractive.ts                   *)
(*   NeaLayout       src/src/framework/NeaLayout.ts                        *)
(*   NeaExport       src/unnamed/part_006                                  *)
(*                                                                         *)
(* Each subsystem has its own specification (SpecQT, SpecQueue, ...) over  *)
(* its own variables; the variables of the other subsystems stay at their  *)
(* initial values.                                                         *)
(***************************************************************************)
EXTENDS Integers, Sequences, FiniteSets, TLC

VARIABLES
  tree,        \* QuadTree under test (SpecQT, SpecQTDrift)
  qtNext,      \* number of insert calls made so far; the next object id
  qtLive,      \* history: the objects inserted and not yet removed
  qtLast,      \* history: the last call made on the tree and its result
  qtTally,     \* history: inserts and successful removes since the last clear
  drawQueue,   \* NeaSmart.drawQueue
  metrics,     \* NeaSmart.metrics
  ctx,         \* the canvas context the layout hands to flush
  opNext,      \* number of queue calls made so far; the next operation id
  flushCalls,  \* number of explicit flush calls made so far
  sinceFlush,  \* history: queue calls accepted since the last explicit flush
  smLast,      \* history: the last call made on the batcher and its outcome
  dirty,       \* NeaSmart.dirtyRegions and NeaSmart.spatialDirtyIndex
  dirtyNext,   \* number of markDirty calls made so far; the next region id
  dirtyCover,  \* history: per dirty region, the marked rectangles it stands for
  dirtyEvicted, \* history: the marked rectangles whose region was evicted
  dirtyLast,   \* history: the last call made on the dirty regions
  canvasPool,  \* NeaSmart.canvasPool
  poolHeld,    \* the canvases handed out by getCanvas and not yet returned
  poolNext,    \* the identity of the next canvas created
  now,         \* Date.now() of the pool: the number of pool calls made so far
  poolLast,    \* history: the last call made on the pool
  failedOperations, \* retry-capable NeaSmart: failedOperations
  retryTimers, \* the setTimeout timers of handleOperationFailure, oldest first
  pendingOps,  \* the promise callbacks of executeDrawOperation not yet run
  requeueLog,  \* history: the operation ids re-inserted by retryOperation
  failedLog,   \* the operation ids passed to emitOperationFailed
  interactive, \* NeaInteractive.registeredShapes and .spatialIndex
  hitCalls,    \* number of set and updateBounds calls made so far
  hitLast,     \* history: the last call made on the NeaInteractive
  layouts,     \* NeaCanvas.layouts, a Map in insertion order
  layoutNext,  \* number of draw, flush and export calls made so far, plus 1
  exportLast,  \* history: the last call made on the canvas and its outcome
  creating,    \* the create calls suspended at await NeaLayout.create
  createNext,  \* number of create calls made so far, plus 1
  createLast,  \* history: the last step of a create call and its outcome
  pointer,     \* NeaInteractive: its listener, throttle, hover and touch fields
  hostTimers,  \* the host's pending setTimeout timers
  timerNext,   \* the id the next setTimeout returns
  clock,       \* Date.now() and the clock of the host's timers, in ms
  fingers,     \* the touches currently on the screen, in client coordinates
  touchNext,   \* the identifier of the next touch
  eventCount,  \* number of mouse and touch events delivered so far
  waitCount,   \* number of times time was let pass so far
  evLast,      \* history: the last event or timer callback and its outcome
  hoverPolls,  \* history: per hover poll, its time, resolved shape, events
  taps,        \* history: per touch-end over a shape, time, place, events
  touchLog,    \* history: per touch, when its first move or end was delivered
  mouseAt,     \* history: the last mouse-move event delivered to the listener
  drawOrder,   \* history: the registered shape ids, the last drawn last
  fillCache,   \* NeaSmart.gradientCache and NeaSmart.patternCache
  cacheCalls,  \* number of fill-style lookups and of cleanup calls made so far
  cacheLast    \* history: the last call made on the fill-style cache

qtVars == <<tree, qtNext, qtLive, qtLast, qtTally>>

\* the batcher without its metrics
smNoMetrics == <<drawQueue, ctx, opNext, flushCalls, sinceFlush, smLast>>

smVars == <<smNoMetrics, metrics>>

dVars == <<dirty, dirtyNext, dirtyCover, dirtyEvicted, dirtyLast>>

pVars == <<canvasPool, poolHeld, poolNext, now, poolLast>>

rVars == <<failedOperations, retryTimers, pendingOps, requeueLog, failedLog>>

hVars == <<interactive, hitCalls, hitLast, drawOrder>>

lVars == <<layouts, layoutNext, exportLast>>

cVars == <<creating, createNext, createLast>>

kVars == <<fillCache, cacheCalls, cacheLast>>

eVars ==
  <<pointer, hostTimers, timerNext, clock, fingers, touchNext, eventCount,
    waitCount, evLast, hoverPolls, taps, touchLog, mouseAt>>

vars ==
  <<qtVars, smVars, dVars, pVars, rVars, hVars, lVars, cVars, eVars, kVars>>

\* what the actions of one subsystem leave alone
exceptQT ==
  <<smVars, dVars, pVars, rVars, hVars, lVars, cVars, eVars, kVars>>
exceptSM ==
  <<qtVars, dVars, pVars, rVars, hVars, lVars, cVars, eVars, kVars>>
exceptD ==
  <<qtVars, smNoMetrics, pVars, rVars, hVars, lVars, cVars, eVars, kVars>>
exceptP ==
  <<qtVars, smNoMetrics, dVars, rVars, hVars, lVars, cVars, eVars, kVars>>
exceptR ==
  <<qtVars, dVars, pVars, hVars, lVars, cVars, eVars, kVars>>
exceptH ==
  <<qtVars, smVars, dVars, pVars, rVars, lVars, cVars, eVars, kVars>>
exceptL ==
  <<qtVars, smVars, dVars, pVars, rVars, hVars, cVars, eVars, kVars>>
exceptC ==
  <<qtVars, smVars, dVars, pVars, rVars, hVars, layoutNext, exportLast, eVars,
    kVars>>
exceptE ==
  <<qtVars, smVars, dVars, pVars, rVars, lVars, cVars, hitCalls, hitLast,
    drawOrder, kVars>>
exceptK ==
  <<qtVars, smNoMetrics, dVars, poolHeld, poolNext, now, poolLast, rVars,
    hVars, lVars, cVars, eVars>>

----------------------------------------------------------------------------
(* Sequence helpers (Array.prototype.splice / findIndex).                  *)

\* s.splice(i, 1) with a 1-based index
RemoveAt(s, i) == SubSeq(s, 1, i - 1) \o SubSeq(s, i + 1, Len(s))

\* s.findIndex(o => o.id === id), 1-based, 0 when there is none
findIndexById(s, id) ==
  IF \E i \in 1..Len(s) : s[i].id = id
  THEN CHOOSE i \in 1..Len(s) :
         s[i].id = id /\ \A j \in 1..(i - 1) : s[j].id # id
  ELSE 0

SeqToSet(s) == {s[i] : i \in 1..Len(s)}

\* F(a) and F(a, b) with the arguments evaluated before the call, as the
\* source language passes them
Call1(F(_), a) == CHOOSE out \in {F(x) : x \in {a}} : TRUE
Call2(F(_, _), a, b) == CHOOSE out \in {F(x, y) : x \in {a}, y \in {b}} : TRUE

Rect(x, y, w, h) == [x |-> x, y |-> y, width |-> w, height |-> h]

SpatialObject(id, r) ==
  [id |-> id, x |-> r.x, y |-> r.y, width |-> r.width, height |-> r.height]

BoundsOf(o) == Rect(o.x, o.y, o.width, o.height)

----------------------------------------------------------------------------
(* QuadTree                                                                *)

maxObjects == 10
maxLevels == 5
RootSize == 4096

\* new QuadTree(x, y, width, height, level)
QuadTree(x, y, w, h, level) ==
  [bounds |-> Rect(x, y, w, h), objects |-> <<>>, nodes |-> <<>>,
   level |-> level]

\* nodes[0..3] of the source are nodes[1..4] here
split(t) ==
  LET x == t.bounds.x
      y == t.bounds.y
      subWidth == t.bounds.width \div 2
      subHeight == t.bounds.height \div 2
  IN [t EXCEPT !.nodes =
        << QuadTree(x + subWidth, y, subWidth, subHeight, t.level + 1),
           QuadTree(x, y, subWidth, subHeight, t.level + 1),
           QuadTree(x, y + subHeight, subWidth, subHeight, t.level + 1),
           QuadTree(x + subWidth, y + subHeight, subWidth, subHeight,
                    t.level + 1) >>]

\* getIndex taking an object that ends on a midpoint line for one that lies
\* on the near side of it
getIndex_touching(t, obj) ==
  LET verticalMidpoint == t.bounds.x + (t.bounds.width \div 2)
      horizontalMidpoint == t.bounds.y + (t.bounds.height \div 2)
      topQuadrant ==
        obj.y < horizontalMidpoint /\ obj.y + obj.height <= horizontalMidpoint
      bottomQuadrant == obj.y > horizontalMidpoint
  IN IF obj.x < verticalMidpoint /\ obj.x + obj.width <= verticalMidpoint
     THEN (IF topQuadrant THEN 1 ELSE IF bottomQuadrant THEN 2 ELSE -1)
     ELSE IF obj.x > verticalMidpoint
     THEN (IF topQuadrant THEN 0 ELSE IF bottomQuadrant THEN 3 ELSE -1)
     ELSE -1

getIndex(t, obj) ==
  LET verticalMidpoint == t.bounds.x + (t.bounds.width \div 2)
      horizontalMidpoint == t.bounds.y + (t.bounds.height \div 2)
      topQuadrant ==
        obj.y < horizontalMidpoint /\ obj.y + obj.height < horizontalMidpoint
      bottomQuadrant == obj.y > horizontalMidpoint
  IN IF obj.x < verticalMidpoint /\ obj.x + obj.width < verticalMidpoint
     THEN (IF topQuadrant THEN 1 ELSE IF bottomQuadrant THEN 2 ELSE -1)
     ELSE IF obj.x > verticalMidpoint
     THEN (IF topQuadrant THEN 0 ELSE IF bottomQuadrant THEN 3 ELSE -1)
     ELSE -1

intersects(rect1, rect2) ==
  ~ ( rect1.x > rect2.x + rect2.width
      \/ rect1.x + rect1.width < rect2.x
      \/ rect1.y > rect2.y + rect2.height
      \/ rect1.y + rect1.height < rect2.y )

RECURSIVE insert(_, _), redistributeObjectsIfNeeded(_),
          moveObjectsToChildNodes(_, _)

\* insert, with tryInsertIntoChildNode inlined as its first branch
insert(t, obj) ==
  IF Len(t.nodes) # 0 /\ getIndex(t, obj) # -1
  THEN [t EXCEPT !.nodes[getIndex(t, obj) + 1] = insert(@, obj)]
  ELSE redistributeObjectsIfNeeded([t EXCEPT !.objects = Append(@, obj)])

\* redistributeObjectsIfNeeded splitting a node as soon as it is full
redistributeObjectsIfNeeded_atCapacity(t) ==
  IF Len(t.objects) >= maxObjects /\ t.level < maxLevels
  THEN moveObjectsToChildNodes(IF Len(t.nodes) = 0 THEN split(t) ELSE t, 1)
  ELSE t

redistributeObjectsIfNeeded(t) ==
  IF Len(t.objects) > maxObjects /\ t.level < maxLevels
  THEN moveObjectsToChildNodes(IF Len(t.nodes) = 0 THEN split(t) ELSE t, 1)
  ELSE t

\* moveObjectsToChildNodes handing an object to the child without taking
\* it out of this.objects
moveObjectsToChildNodes_keepCopy(t, i) ==
  IF i > Len(t.objects)
  THEN t
  ELSE LET currentObj == t.objects[i]
           nodeIndex == getIndex(t, currentObj)
       IN IF nodeIndex = -1
          THEN moveObjectsToChildNodes(t, i + 1)
          ELSE moveObjectsToChildNodes(
                 [t EXCEPT !.nodes[nodeIndex + 1] = insert(@, currentObj)],
                 i + 1)

\* the while loop over this.objects, i being 1-based; tryMoveObjectToChildNode
\* is the THEN branch
moveObjectsToChildNodes(t, i) ==
  IF i > Len(t.objects)
  THEN t
  ELSE LET currentObj == t.objects[i]
           nodeIndex == getIndex(t, currentObj)
       IN IF nodeIndex = -1
          THEN moveObjectsToChildNodes(t, i + 1)
          ELSE moveObjectsToChildNodes(
                 [t EXCEPT !.objects = RemoveAt(@, i),
                           !.nodes[nodeIndex + 1] = insert(@, currentObj)],
                 i)

RECURSIVE remove(_, _), removeScan(_, _, _)

\* the for loop over this.nodes of remove: the first child that removes wins
removeScan(t, obj, k) ==
  IF k > Len(t.nodes)
  THEN [tree |-> t, found |-> FALSE]
  ELSE LET r == remove(t.nodes[k], obj)
       IN IF r.found
          THEN [tree |-> [t EXCEPT !.nodes[k] = r.tree], found |-> TRUE]
          ELSE removeScan(t, obj, k + 1)

\* remove without the descent into the children: a removal that only looks at
\* the node it is called on
removeOwnNodeOnly(t, obj) ==
  LET index == findIndexById(t.objects, obj.id)
  IN IF index # 0
     THEN [tree |-> [t EXCEPT !.objects = RemoveAt(@, index)], found |-> TRUE]
     ELSE [tree |-> t, found |-> FALSE]

\* remove(obj): the tree after the call and the value returned
remove(t, obj) ==
  LET index == findIndexById(t.objects, obj.id)
  IN IF index # 0
     THEN [tree |-> [t EXCEPT !.objects = RemoveAt(@, index)], found |-> TRUE]
     ELSE IF Len(t.nodes) > 0
     THEN LET nodeIndex == getIndex(t, obj)
          IN IF nodeIndex # -1
             THEN LET r == remove(t.nodes[nodeIndex + 1], obj)
                  IN [tree |-> [t EXCEPT !.nodes[nodeIndex + 1] = r.tree],
                      found |-> r.found]
             ELSE removeScan(t, obj, 1)
     ELSE [tree |-> t, found |-> FALSE]

RECURSIVE query(_, _), queryNodes(_, _, _)

\* this.objects.filter(obj => intersects(obj, queryBounds)), in order
RECURSIVE filterIntersecting(_, _)
filterIntersecting(objs, q) ==
  IF objs = <<>>
  THEN <<>>
  ELSE (IF intersects(Head(objs), q) THEN <<Head(objs)>> ELSE <<>>)
       \o filterIntersecting(Tail(objs), q)

queryNodes(t, q, k) ==
  IF k > Len(t.nodes)
  THEN <<>>
  ELSE query(t.nodes[k], q) \o queryNodes(t, q, k + 1)

\* query(x, y, width, height), q being the query rectangle
query(t, q) ==
  IF ~ intersects(t.bounds, q)
  THEN <<>>
  ELSE filterIntersecting(t.objects, q) \o queryNodes(t, q, 1)

RECURSIVE filterContaining(_, _, _)
filterContaining(objs, x, y) ==
  IF objs = <<>>
  THEN <<>>
  ELSE (IF x >= Head(objs).x /\ x <= Head(objs).x + Head(objs).width
           /\ y >= Head(objs).y /\ y <= Head(objs).y + Head(objs).height
        THEN <<Head(objs)>> ELSE <<>>)
       \o filterContaining(Tail(objs), x, y)

\* queryPoint with the four edges of an object left out
queryPoint_exclusive(t, x, y) ==
  SelectSeq(query(t, Rect(x, y, 1, 1)),
            LAMBDA o : x > o.x /\ x < o.x + o.width
                       /\ y > o.y /\ y < o.y + o.height)

\* queryPoint(x, y)
queryPoint(t, x, y) == filterContaining(query(t, Rect(x, y, 1, 1)), x, y)

\* clear(): objects and child nodes dropped, bounds and level kept
clear(t) == [t EXCEPT !.objects = <<>>, !.nodes = <<>>]

RECURSIVE size(_), treeDepth(_)
size(t) ==
  Len(t.objects)
  + (IF Len(t.nodes) = 0 THEN 0
     ELSE size(t.nodes[1]) + size(t.nodes[2]) + size(t.nodes[3])
          + size(t.nodes[4]))

\* getStats().maxDepth
Max(a, b) == IF a >= b THEN a ELSE b
Min(a, b) == IF a <= b THEN a ELSE b

treeDepth(t) ==
  IF Len(t.nodes) = 0 THEN t.level
  ELSE Max(Max(treeDepth(t.nodes[1]), treeDepth(t.nodes[2])),
           Max(treeDepth(t.nodes[3]), treeDepth(t.nodes[4])))

----------------------------------------------------------------------------
(* DrawConfig, the tool registry and the canvas context                    *)

\* An absent string option is Undef; an absent numeric option is UndefNum, a
\* number outside the range validateDrawInputs accepts; an absent shadow or
\* glow is the record whose color is Undef.
Undef == "undefined"
COORDINATE_RANGE == 1000000
UndefNum == 0 - (COORDINATE_RANGE + 1)
NoShadow == [offsetX |-> 0, offsetY |-> 0, blur |-> 0, color |-> Undef]
NoGlow == [color |-> Undef, blur |-> 0]
TRANSPARENT == "transparent"
SOURCE_OVER == "source-over"
NONE == "none"

\* a DrawConfig: every field is a value or absent.  Opacity is in percent.
DrawConfig(x, y, width, radius, fill, stroke, opacity) ==
  [x |-> x, y |-> y, width |-> width, height |-> width, radius |-> radius,
   radiusX |-> UndefNum, radiusY |-> UndefNum, fill |-> fill,
   stroke |-> stroke, strokeWidth |-> UndefNum, opacity |-> opacity,
   blendMode |-> Undef, shadow |-> NoShadow, glow |-> NoGlow]

\* JavaScript truthiness of a string option: undefined and '' are falsy
Truthy(v) == v # Undef /\ v # ""

\* JavaScript truthiness of a numeric option: undefined and 0 are falsy
TruthyNum(n) == n # UndefNum /\ n # 0

\* a || b on strings and on numbers
OrElse(a, b) == IF Truthy(a) THEN a ELSE b
OrElseNum(a, b) == IF TruthyNum(a) THEN a ELSE b

\* the shapes of ToolRegistry.initialize() that the model draws with
RegisteredTools == {"rectangle", "circle"}

ToolRegistryHas(shape) == shape \in RegisteredTools

\* DrawingUtils.validateRequiredProps: the props a tool throws without
RequiredProps(shape) ==
  IF shape = "rectangle" THEN {"x", "y", "width", "height"}
  ELSE {"x", "y", "radius"}

ToolThrows(shape, options) ==
  \E prop \in RequiredProps(shape) : options[prop] = UndefNum

\* The surface is one row of SurfaceWidth cells; a shape covers the cells of
\* its horizontal extent: rect(x, y, width, height) the cells x..x+width-1,
\* arc(x, y, radius) the cells x-radius..x+radius-1.
SurfaceWidth == 6
Cells == 0..(SurfaceWidth - 1)

PathCells(shape, options) ==
  IF shape = "rectangle"
  THEN {c \in Cells : options.x <= c /\ c < options.x + options.width}
  ELSE {c \in Cells : options.x - options.radius <= c
                      /\ c < options.x + options.radius}

\* the cells the outline of the path passes through
OutlineCells(shape, options) ==
  LET cs == PathCells(shape, options)
  IN {c \in cs : (c - 1) \notin cs \/ (c + 1) \notin cs}

FullAlpha == 100

\* A cell holds the layers painted on it since the last opaque one.
PaintLayer(pixel, colour, alpha) ==
  IF alpha = FullAlpha THEN << [colour |-> colour, alpha |-> alpha] >>
  ELSE Append(pixel, [colour |-> colour, alpha |-> alpha])

PaintCells(pixels, cs, colour, alpha) ==
  [c \in Cells |-> IF c \in cs THEN PaintLayer(pixels[c], colour, alpha)
                   ELSE pixels[c]]

\* a fresh 2d context: default paint state, empty save stack, blank surface;
\* log and calls record the routine calls made on it
NewContext ==
  [fillStyle |-> "#000000", strokeStyle |-> "#000000", lineWidth |-> 1,
   globalAlpha |-> FullAlpha, globalCompositeOperation |-> SOURCE_OVER,
   shadowOffsetX |-> 0, shadowOffsetY |-> 0, shadowBlur |-> 0,
   shadowColor |-> TRANSPARENT,
   stack |-> <<>>, pixels |-> [c \in Cells |-> <<>>], log |-> <<>>,
   calls |-> <<>>]

PaintState(c) ==
  [fillStyle |-> c.fillStyle, strokeStyle |-> c.strokeStyle,
   lineWidth |-> c.lineWidth, globalAlpha |-> c.globalAlpha,
   globalCompositeOperation |-> c.globalCompositeOperation,
   shadowOffsetX |-> c.shadowOffsetX, shadowOffsetY |-> c.shadowOffsetY,
   shadowBlur |-> c.shadowBlur, shadowColor |-> c.shadowColor]

\* ctx.save()
save(c) == [c EXCEPT !.stack = Append(@, PaintState(c))]

\* ctx.restore(): no effect on an empty stack
restore(c) ==
  IF c.stack = <<>> THEN c
  ELSE LET s == c.stack[Len(c.stack)]
       IN [c EXCEPT !.fillStyle = s.fillStyle,
                    !.strokeStyle = s.strokeStyle,
                    !.lineWidth = s.lineWidth,
                    !.globalAlpha = s.globalAlpha,
                    !.globalCompositeOperation = s.globalCompositeOperation,
                    !.shadowOffsetX = s.shadowOffsetX,
                    !.shadowOffsetY = s.shadowOffsetY,
                    !.shadowBlur = s.shadowBlur,
                    !.shadowColor = s.shadowColor,
                    !.stack = SubSeq(@, 1, Len(@) - 1)]

\* A registered tool called with (ctx, options); the caller has checked
\* ToolThrows.  DrawingUtils.drawWithEffects: between its own save and
\* restore it fills the path with options.fill at options.opacity (the
\* context's globalAlpha when the option is absent), resets the alpha and
\* strokes the outline with options.stroke.  The paint state is left as it
\* was; the call is recorded in the context's log, and the options and the
\* paint state that the routine is called with in the context's calls.
tool(c, operation) ==
  LET options == operation.options
      alpha == IF options.opacity # UndefNum THEN options.opacity
               ELSE c.globalAlpha
      fillStyle == IF options.fill # Undef THEN options.fill ELSE TRANSPARENT
      filled == IF Truthy(fillStyle) /\ fillStyle # TRANSPARENT
                   /\ fillStyle # NONE
                THEN PaintCells(c.pixels, PathCells(operation.shape, options),
                                fillStyle, alpha)
                ELSE c.pixels
      stroked == IF Truthy(options.stroke) /\ options.stroke # TRANSPARENT
                 THEN PaintCells(filled,
                                 OutlineCells(operation.shape, options),
                                 options.stroke, FullAlpha)
                 ELSE filled
  IN [c EXCEPT !.pixels = stroked, !.log = Append(@, operation.id),
               !.calls = Append(@, [options |-> options,
                                    paint |-> PaintState(c)])]

----------------------------------------------------------------------------
(* NeaSmart: the operation batcher                                         *)

maxQueueSize == 50

DrawOperation(id, shape, options) ==
  [id |-> id, shape |-> shape, options |-> options]

\* getStateKey: the key is the JSON text of these seven fields in this order;
\* on strings and finite numbers JSON.stringify is injective and JSON.parse
\* inverts it, so the record stands for the text.  The shadow and glow fields
\* are 'none' when the option is absent: NoShadow and NoGlow stand for it.
getStateKey(options) ==
  [fill |-> OrElse(options.fill, TRANSPARENT),
   stroke |-> OrElse(options.stroke, TRANSPARENT),
   lineWidth |-> OrElseNum(options.strokeWidth, 1),
   opacity |-> IF options.opacity # UndefNum THEN options.opacity
               ELSE FullAlpha,
   blendMode |-> OrElse(options.blendMode, SOURCE_OVER),
   shadow |-> options.shadow,
   glow |-> options.glow]

\* The keys of a Map filled in the order of ops, K(op) being the key of op:
\* distinct keys in the order of their first occurrence.
RECURSIVE KeysInOrder(_, _, _)
KeysInOrder(ops, K(_), seen) ==
  IF ops = <<>> THEN <<>>
  ELSE IF K(Head(ops)) \in seen THEN KeysInOrder(Tail(ops), K, seen)
  ELSE <<K(Head(ops))>>
       \o KeysInOrder(Tail(ops), K, seen \cup {K(Head(ops))})

\* the values of that Map, each the ops of its key in queue order
GroupsInOrder(ops, K(_)) ==
  LET keys == KeysInOrder(ops, K, {})
  IN [i \in 1..Len(keys) |-> SelectSeq(ops, LAMBDA op : K(op) = keys[i])]

ShapeOf(op) == op.shape
StateKeyOf(op) == getStateKey(op.options)

groupOperationsByShapeType(operations) ==
  GroupsInOrder(SelectSeq(operations, LAMBDA op : op.shape # ""), ShapeOf)

groupOperationsByState(operations) == GroupsInOrder(operations, StateKeyOf)

Abs(n) == IF n < 0 THEN -n ELSE n

\* the comparator of applySpatialGrouping
compareSpatial(a, b) ==
  LET aY == OrElseNum(a.options.y, 0)
      bY == OrElseNum(b.options.y, 0)
      aX == OrElseNum(a.options.x, 0)
      bX == OrElseNum(b.options.x, 0)
  IN IF Abs(aY - bY) > 50 THEN aY - bY ELSE aX - bX

\* Array.prototype.sort as a stable insertion sort: each element goes behind
\* the last element that does not compare greater than it.
RECURSIVE insertSorted(_, _), sort(_)
insertSorted(sorted, op) ==
  IF sorted = <<>> THEN <<op>>
  ELSE IF compareSpatial(sorted[Len(sorted)], op) > 0
  THEN Append(insertSorted(SubSeq(sorted, 1, Len(sorted) - 1), op),
              sorted[Len(sorted)])
  ELSE Append(sorted, op)

sort(ops) ==
  IF ops = <<>> THEN <<>>
  ELSE insertSorted(sort(SubSeq(ops, 1, Len(ops) - 1)), ops[Len(ops)])

spatialThreshold == 10
batchSize == 25

\* the slicing loop stopping before a last batch that is not full
RECURSIVE chunk_fullOnly(_)
chunk_fullOnly(ops) ==
  IF Len(ops) < batchSize THEN <<>>
  ELSE <<SubSeq(ops, 1, batchSize)>>
       \o chunk_fullOnly(SubSeq(ops, batchSize + 1, Len(ops)))

RECURSIVE chunk(_)
chunk(ops) ==
  IF Len(ops) <= batchSize THEN (IF ops = <<>> THEN <<>> ELSE <<ops>>)
  ELSE <<SubSeq(ops, 1, batchSize)>>
       \o chunk(SubSeq(ops, batchSize + 1, Len(ops)))

\* applySpatialGrouping without the slicing into batches
applySpatialGrouping_unsliced(operations) ==
  IF Len(operations) <= spatialThreshold THEN <<operations>>
  ELSE <<sort(operations)>>

applySpatialGrouping(operations) ==
  IF Len(operations) <= spatialThreshold THEN <<operations>>
  ELSE chunk(sort(operations))

\* s[1] \o s[2] \o ... for a sequence of sequences
RECURSIVE Flatten(_)
Flatten(ss) == IF ss = <<>> THEN <<>> ELSE Head(ss) \o Flatten(Tail(ss))

\* the batches of one shape-type group: its state groups, each split spatially
stateBatches(shapeOps) ==
  LET stateGroups == groupOperationsByState(shapeOps)
  IN Flatten([i \in 1..Len(stateGroups) |->
                applySpatialGrouping(stateGroups[i])])

createOptimizedBatches(operations) ==
  LET shapeTypeGroups == groupOperationsByShapeType(operations)
  IN Flatten([i \in 1..Len(shapeTypeGroups) |->
                stateBatches(shapeTypeGroups[i])])

\* applyCanvasState(ctx, stateKey); string fill styles are returned as they
\* are by getCachedFillStyle
applyCanvasState(c, state) ==
  LET c1 == IF state.fill # TRANSPARENT
            THEN [c EXCEPT !.fillStyle = state.fill] ELSE c
      c2 == IF state.stroke # TRANSPARENT
            THEN [c1 EXCEPT !.strokeStyle = state.stroke,
                            !.lineWidth = state.lineWidth]
            ELSE c1
      c3 == IF state.opacity # FullAlpha
            THEN [c2 EXCEPT !.globalAlpha = state.opacity] ELSE c2
      c4 == IF state.blendMode # SOURCE_OVER
            THEN [c3 EXCEPT !.globalCompositeOperation = state.blendMode]
            ELSE c3
      c5 == IF state.shadow # NoShadow
            THEN [c4 EXCEPT !.shadowOffsetX =
                               OrElseNum(state.shadow.offsetX, 0),
                            !.shadowOffsetY =
                               OrElseNum(state.shadow.offsetY, 0),
                            !.shadowBlur = OrElseNum(state.shadow.blur, 0),
                            !.shadowColor =
                               OrElse(state.shadow.color, TRANSPARENT)]
            ELSE c4
  IN IF state.glow # NoGlow
     THEN [c5 EXCEPT !.shadowColor = OrElse(state.glow.color, TRANSPARENT),
                     !.shadowBlur = OrElseNum(state.glow.blur, 0),
                     !.shadowOffsetX = 0, !.shadowOffsetY = 0]
     ELSE c5

applyOperationOptions(c, options) ==
  LET c1 == IF Truthy(options.fill) /\ options.fill # TRANSPARENT
            THEN [c EXCEPT !.fillStyle = options.fill] ELSE c
      c2 == IF Truthy(options.stroke) /\ options.stroke # TRANSPARENT
            THEN [c1 EXCEPT !.strokeStyle = options.stroke,
                            !.lineWidth = OrElseNum(options.strokeWidth, 1)]
            ELSE c1
      c3 == IF options.opacity # UndefNum /\ options.opacity # FullAlpha
            THEN [c2 EXCEPT !.globalAlpha = options.opacity] ELSE c2
      c4 == IF Truthy(options.blendMode) /\ options.blendMode # SOURCE_OVER
            THEN [c3 EXCEPT !.globalCompositeOperation = options.blendMode]
            ELSE c3
      c5 == IF options.shadow # NoShadow
            THEN [c4 EXCEPT !.shadowOffsetX = options.shadow.offsetX,
                            !.shadowOffsetY = options.shadow.offsetY,
                            !.shadowBlur = options.shadow.blur,
                            !.shadowColor = options.shadow.color]
            ELSE c4
  IN IF options.glow # NoGlow
     THEN [c5 EXCEPT !.shadowColor = options.glow.color,
                     !.shadowBlur = options.glow.blur,
                     !.shadowOffsetX = 0, !.shadowOffsetY = 0]
     ELSE c5

\* A call that may throw returns [ctx, threw].
\* executeDrawOperation: an unregistered shape or a throwing tool is rethrown
\* as OPERATION_FAILURE; the options are applied before the tool runs.
executeDrawOperation(c, operation) ==
  IF ~ ToolRegistryHas(operation.shape)
  THEN [ctx |-> c, threw |-> TRUE]
  ELSE Call1(LAMBDA c1 :
               IF ToolThrows(operation.shape, operation.options)
               THEN [ctx |-> c1, threw |-> TRUE]
               ELSE [ctx |-> tool(c1, operation), threw |-> FALSE],
             applyOperationOptions(c, operation.options))

\* the loop over the operations of a batch, left at the first throw
RECURSIVE executeOperations(_, _)
executeOperations(c, operations) ==
  IF operations = <<>> THEN [ctx |-> c, threw |-> FALSE]
  ELSE Call1(LAMBDA r :
               IF r.threw THEN r
               ELSE executeOperations(r.ctx, Tail(operations)),
             Call2(executeDrawOperation, c, Head(operations)))

executeBatchGroup(c, operations) ==
  IF operations = <<>> THEN [ctx |-> c, threw |-> FALSE]
  ELSE Call2(executeOperations,
             applyCanvasState(c, getStateKey(operations[1].options)),
             operations)

\* the loop over the batches, left at the first throw
RECURSIVE executeBatchGroups(_, _)
executeBatchGroups(c, batches) ==
  IF batches = <<>> THEN [ctx |-> c, threw |-> FALSE]
  ELSE Call1(LAMBDA r :
               IF r.threw THEN r
               ELSE executeBatchGroups(r.ctx, Tail(batches)),
             Call2(executeBatchGroup, c, Head(batches)))

\* executeBatch: restore() is reached only when no batch throws
executeBatch(c, operations) ==
  IF operations = <<>> THEN [ctx |-> c, threw |-> FALSE]
  ELSE Call1(LAMBDA r :
               IF r.threw THEN r
               ELSE [ctx |-> restore(r.ctx), threw |-> FALSE],
             Call2(executeBatchGroups, save(c),
                   createOptimizedBatches(operations)))

\* the absent argument of flush()
NoContext == [undefined |-> TRUE]

\* flush(ctx?): [drawQueue, ctx, threw] after the call.  The queue is reset
\* by the statement after executeBatch, which a throw skips.
flush(q, c) ==
  IF q = <<>> THEN [drawQueue |-> q, ctx |-> c, threw |-> FALSE]
  ELSE IF c # NoContext
  THEN Call1(LAMBDA r :
               IF r.threw THEN [drawQueue |-> q, ctx |-> r.ctx, threw |-> TRUE]
               ELSE [drawQueue |-> <<>>, ctx |-> r.ctx, threw |-> FALSE],
             Call2(executeBatch, c, q))
  ELSE [drawQueue |-> <<>>, ctx |-> c, threw |-> FALSE]

\* the auto-flush test of queue with > for >=
queueFull_gt(q) == Len(q) > maxQueueSize

\* the auto-flush test of queue
queueFull(q) == Len(q) >= maxQueueSize

\* queue with the registry test made after the push and the automatic flush
queue_checkAfterPush(q, m, operation) ==
  LET pushed == Append(q, operation)
      counted == [m EXCEPT !.operationsBatched = @ + 1]
  IN [drawQueue |-> IF queueFull(pushed)
                    THEN flush(pushed, NoContext).drawQueue ELSE pushed,
      metrics |-> counted,
      threw |-> ~ ToolRegistryHas(operation.shape)]

\* queue(shape, options): [drawQueue, metrics, threw] after the call.  An
\* unregistered shape throws UNKNOWN_DRAWING_TOOL before anything else is
\* done; the automatic flush is flush() without a context.
queue(q, m, operation) ==
  IF ~ ToolRegistryHas(operation.shape)
  THEN [drawQueue |-> q, metrics |-> m, threw |-> TRUE]
  ELSE LET pushed == Append(q, operation)
           counted == [m EXCEPT !.operationsBatched = @ + 1]
       IN [drawQueue |-> IF queueFull(pushed)
                         THEN flush(pushed, NoContext).drawQueue ELSE pushed,
           metrics |-> counted, threw |-> FALSE]

NewMetrics ==
  [operationsBatched |-> 0, cacheHits |-> 0, cacheMisses |-> 0,
   poolHits |-> 0, poolMisses |-> 0, dirtyRegionRedraws |-> 0]

\* the painting of the operations one by one in queue order, on a context
\* that each operation sets up for itself
RECURSIVE executeFifo(_, _)
executeFifo(c, operations) ==
  IF operations = <<>> THEN c
  ELSE Call2(executeFifo,
             Call2(executeDrawOperation, c, Head(operations)).ctx,
             Tail(operations))

\* a NeaSmart after construction and the context of its layout
SMInit ==
  /\ drawQueue = <<>>
  /\ metrics = NewMetrics
  /\ ctx = NewContext
  /\ opNext = 1
  /\ flushCalls = 0
  /\ sinceFlush = 0
  /\ smLast = [op |-> "none"]

\* queue(shape, options), accepted at most maxCalls times; the id of the
\* operation is made after the registry test, so a rejected call uses none
SMQueue(catalogue, maxCalls) ==
  /\ opNext <= maxCalls
  /\ \E entry \in catalogue :
       LET operation == DrawOperation(opNext, entry.shape, entry.options)
           r == queue(drawQueue, metrics, operation)
       IN /\ drawQueue' = r.drawQueue
          /\ metrics' = r.metrics
          /\ smLast' = IF r.threw
                       THEN [op |-> "queue threw", shape |-> entry.shape,
                             queueBefore |-> drawQueue,
                             metricsBefore |-> metrics]
                       ELSE [op |-> "queue", operation |-> operation]
          /\ opNext' = IF r.threw THEN opNext ELSE opNext + 1
          /\ sinceFlush' = IF r.threw THEN sinceFlush ELSE sinceFlush + 1
  /\ UNCHANGED <<ctx, flushCalls>>

\* flush(c), c being the layout's context or no context
SMFlushWith(c, maxFlushes) ==
  /\ flushCalls < maxFlushes
  /\ \E r \in {flush(drawQueue, c)} :
        /\ drawQueue' = r.drawQueue
        /\ ctx' = IF c = NoContext THEN ctx ELSE r.ctx
        /\ smLast' = [op |-> "flush", hadContext |-> c # NoContext,
                      threw |-> r.threw, queueBefore |-> drawQueue,
                      ctxBefore |-> ctx]
  /\ flushCalls' = flushCalls + 1
  /\ sinceFlush' = 0
  /\ UNCHANGED <<metrics, opNext>>

----------------------------------------------------------------------------
(* NeaSmart: dirty regions (markDirty .. clearDirtyRegions).  The state is *)
(* d = [dirtyRegions, spatialDirtyIndex].                                  *)

maxDirtyRegions == 20

\* regionsOverlap: touching regions overlap
regionsOverlap(region1, region2) ==
  ~ ( \/ region1.x + region1.width < region2.x
      \/ region2.x + region2.width < region1.x
      \/ region1.y + region1.height < region2.y
      \/ region2.y + region2.height < region1.y )

\* mergeRegions with Math.min for Math.max in the width
mergeRegions_minWidth(region1, region2) ==
  LET x == Min(region1.x, region2.x)
      y == Min(region1.y, region2.y)
  IN Rect(x, y,
          Min(region1.x + region1.width, region2.x + region2.width) - x,
          Max(region1.y + region1.height, region2.y + region2.height) - y)

\* mergeRegions: the bounding box of the two regions
mergeRegions(region1, region2) ==
  LET x == Min(region1.x, region2.x)
      y == Min(region1.y, region2.y)
  IN Rect(x, y,
          Max(region1.x + region1.width, region2.x + region2.width) - x,
          Max(region1.y + region1.height, region2.y + region2.height) - y)

\* dirtyRegions.findIndex(r => r has the geometry of obj), 1-based, 0 when
\* there is none
findIndexByGeometry(regions, obj) ==
  IF \E i \in 1..Len(regions) : regions[i] = BoundsOf(obj)
  THEN CHOOSE i \in 1..Len(regions) :
         /\ regions[i] = BoundsOf(obj)
         /\ \A j \in 1..(i - 1) : regions[j] # BoundsOf(obj)
  ELSE 0

\* the null candidate
NoCandidate == [found |-> FALSE, index |-> 0, spatialId |-> 0, mergedArea |-> 0]

\* evaluateMergeCandidate
evaluateMergeCandidate(regions, spatialObj, newRegion) ==
  LET regionIndex == findIndexByGeometry(regions, spatialObj)
  IN IF regionIndex = 0 THEN NoCandidate
     ELSE IF ~ regionsOverlap(regions[regionIndex], newRegion)
     THEN NoCandidate
     ELSE LET merged == mergeRegions(regions[regionIndex], newRegion)
          IN [found |-> TRUE, index |-> regionIndex,
              spatialId |-> spatialObj.id,
              mergedArea |-> merged.width * merged.height]

\* findBestMergeCandidate: the loop over the overlapping objects, best being
\* the candidate kept so far; a later candidate wins only with a strictly
\* smaller merged area
RECURSIVE findBestMergeCandidate(_, _, _, _)
findBestMergeCandidate(regions, newRegion, overlapping, best) ==
  IF overlapping = <<>> THEN best
  ELSE LET candidate ==
             evaluateMergeCandidate(regions, Head(overlapping), newRegion)
           better == /\ candidate.found
                     /\ (~ best.found \/ candidate.mergedArea < best.mergedArea)
       IN findBestMergeCandidate(regions, newRegion, Tail(overlapping),
                                 IF better THEN candidate ELSE best)

\* performSpatialMerge: the candidate's region is replaced by the merged
\* region, in the list and in the index
performSpatialMerge(d, candidate, newRegion, regionId) ==
  LET region == d.dirtyRegions[candidate.index]
      merged == mergeRegions(region, newRegion)
      removed == remove(d.spatialDirtyIndex,
                        SpatialObject(candidate.spatialId, region)).tree
  IN [dirtyRegions |-> [d.dirtyRegions EXCEPT ![candidate.index] = merged],
      spatialDirtyIndex |-> insert(removed, SpatialObject(regionId, merged))]

\* the first candidate of the query with the geometry of the region, 0 when
\* there is none
firstWithGeometry(candidates, region) ==
  IF \E i \in 1..Len(candidates) : BoundsOf(candidates[i]) = region
  THEN CHOOSE i \in 1..Len(candidates) :
         /\ BoundsOf(candidates[i]) = region
         /\ \A j \in 1..(i - 1) : BoundsOf(candidates[j]) # region
  ELSE 0

\* cleanupOldestDirtyRegion
cleanupOldestDirtyRegion(d) ==
  IF d.dirtyRegions = <<>> THEN d
  ELSE LET oldestRegion == Head(d.dirtyRegions)
           candidates == query(d.spatialDirtyIndex, oldestRegion)
           k == firstWithGeometry(candidates, oldestRegion)
       IN [dirtyRegions |-> Tail(d.dirtyRegions),
           spatialDirtyIndex |->
             IF k = 0 THEN d.spatialDirtyIndex
             ELSE remove(d.spatialDirtyIndex, candidates[k]).tree]

\* markDirty(x, y, width, height), regionId being the fresh id:
\* [d, merged, index, evicted] after the call, index being the place of the
\* region that accounts for the marked rectangle
markDirty(d, region, regionId) ==
  LET overlapping == query(d.spatialDirtyIndex, region)
      best == findBestMergeCandidate(d.dirtyRegions, region, overlapping,
                                     NoCandidate)
  IN IF overlapping # <<>> /\ best.found
     THEN [d |-> performSpatialMerge(d, best, region, regionId),
           merged |-> TRUE, index |-> best.index, evicted |-> FALSE]
     ELSE LET pushed ==
                [dirtyRegions |-> Append(d.dirtyRegions, region),
                 spatialDirtyIndex |->
                   insert(d.spatialDirtyIndex, SpatialObject(regionId, region))]
              over == Len(pushed.dirtyRegions) > maxDirtyRegions
          IN [d |-> IF over THEN cleanupOldestDirtyRegion(pushed) ELSE pushed,
              merged |-> FALSE,
              index |-> IF over THEN Len(pushed.dirtyRegions) - 1
                        ELSE Len(pushed.dirtyRegions),
              evicted |-> over]

\* updateSpatialBounds: the index is rebuilt from the list.  The ids of
\* the rebuilt entries end in the position i of the region; they are the
\* negative numbers here, the ids of markDirty being positive.
RECURSIVE insertRegions(_, _, _)
insertRegions(t, regions, i) ==
  IF regions = <<>> THEN t
  ELSE insertRegions(insert(t, SpatialObject(0 - i, Head(regions))),
                     Tail(regions), i + 1)

updateSpatialBounds(d, width, height) ==
  [dirtyRegions |-> d.dirtyRegions,
   spatialDirtyIndex |->
     insertRegions(QuadTree(0, 0, width, height, 0), d.dirtyRegions, 1)]

\* getDirtyRegions
getDirtyRegions(d) == d.dirtyRegions

\* clearDirtyRegions
clearDirtyRegions(d) ==
  [dirtyRegions |-> <<>>, spatialDirtyIndex |-> clear(d.spatialDirtyIndex)]

\* a NeaSmart after construction: no dirty region
DInit ==
  /\ dirty = [dirtyRegions |-> <<>>,
              spatialDirtyIndex |-> QuadTree(0, 0, RootSize, RootSize, 0)]
  /\ dirtyCover = <<>>
  /\ dirtyEvicted = {}
  /\ dirtyNext = 1
  /\ dirtyLast = [op |-> "none"]

\* markDirty(region); dirtyCover follows the list: the marked rectangle is
\* accounted for by the region it was merged into or pushed as, and the
\* rectangles of an evicted region are forgotten
DMarkDirty(region) ==
  LET r == markDirty(dirty, region, dirtyNext)
      grown == IF r.merged
               THEN [dirtyCover EXCEPT ![r.index] = @ \cup {region}]
               ELSE Append(dirtyCover, {region})
  IN /\ dirty' = r.d
     /\ dirtyCover' = IF r.evicted THEN Tail(grown) ELSE grown
     /\ dirtyEvicted' = IF r.evicted THEN dirtyEvicted \cup Head(grown)
                        ELSE dirtyEvicted
     /\ dirtyNext' = dirtyNext + 1
     /\ dirtyLast' = [op |-> "markDirty", region |-> region,
                      merged |-> r.merged, evicted |-> r.evicted,
                      index |-> r.index, before |-> dirty]

\* clearDirtyRegions()
DClearDirtyRegions ==
  /\ dirty' = clearDirtyRegions(dirty)
  /\ dirtyCover' = <<>>
  /\ dirtyEvicted' = {}
  /\ metrics' = [metrics EXCEPT !.dirtyRegionRedraws = @ + 1]
  /\ dirtyLast' = [op |-> "clearDirtyRegions"]
  /\ UNCHANGED dirtyNext

\* updateSpatialBounds(side, side)
DUpdateSpatialBounds(side) ==
  /\ dirty' = updateSpatialBounds(dirty, side, side)
  /\ dirtyLast' = [op |-> "updateSpatialBounds", side |-> side,
                   before |-> dirty]
  /\ UNCHANGED <<dirtyNext, dirtyCover, dirtyEvicted>>

----------------------------------------------------------------------------
(* NeaSmart: the canvas pool.  A canvas is its identity, a number; the     *)
(* host runs Node.js, where creating a canvas succeeds when the canvas     *)
(* package is installed and throws when it is not.  Date.now() is the      *)
(* number of pool calls made so far.                                       *)

maxPoolSize == 10

PooledCanvas(canvas, width, height, lastUsed) ==
  [canvas |-> canvas, width |-> width, height |-> height,
   lastUsed |-> lastUsed]

\* canvasPool.findIndex(item => item.width === width && item.height ===
\* height), 1-based, 0 when there is none
findPoolIndex(pool, width, height) ==
  IF \E i \in 1..Len(pool) : pool[i].width = width /\ pool[i].height = height
  THEN CHOOSE i \in 1..Len(pool) :
         /\ pool[i].width = width /\ pool[i].height = height
         /\ \A j \in 1..(i - 1) :
              ~ (pool[j].width = width /\ pool[j].height = height)
  ELSE 0

NoCanvas == 0

\* createNodeCanvas(width, height): the canvas created, or
\* NODE_CANVAS_PACKAGE_MISSING thrown when the import of the package fails
createNodeCanvas(fresh, installed) ==
  IF installed THEN [canvas |-> fresh, threw |-> FALSE]
  ELSE [canvas |-> NoCanvas, threw |-> TRUE]

\* getCanvas(width, height), fresh being the canvas a miss creates and
\* installed telling whether the host can create one:
\* [canvasPool, metrics, canvas, hit, threw] after the call
getCanvas(pool, m, width, height, fresh, installed) ==
  LET poolIndex == findPoolIndex(pool, width, height)
      created == createNodeCanvas(fresh, installed)
  IN IF poolIndex # 0
     THEN [canvasPool |-> RemoveAt(pool, poolIndex),
           metrics |-> [m EXCEPT !.poolHits = @ + 1],
           canvas |-> pool[poolIndex].canvas, hit |-> TRUE, threw |-> FALSE]
     ELSE [canvasPool |-> pool,
           metrics |-> [m EXCEPT !.poolMisses = @ + 1],
           canvas |-> created.canvas, hit |-> FALSE, threw |-> created.threw]

\* returnCanvas evicting the newest entry instead of the oldest
returnCanvas_evictLast(pool, canvas, width, height, time) ==
  Append(IF Len(pool) >= maxPoolSize THEN SubSeq(pool, 1, Len(pool) - 1)
         ELSE pool,
         PooledCanvas(canvas, width, height, time))

\* returnCanvas(canvas, width, height) at the given time: the pool after it
returnCanvas(pool, canvas, width, height, time) ==
  Append(IF Len(pool) >= maxPoolSize THEN Tail(pool) ELSE pool,
         PooledCanvas(canvas, width, height, time))

\* a NeaSmart after construction: an empty pool, no canvas handed out
PInit ==
  /\ canvasPool = <<>>
  /\ poolHeld = {}
  /\ poolNext = 1
  /\ now = 0
  /\ poolLast = [op |-> "none"]

\* getCanvas(side, side) by a caller who keeps the canvas it gets
PGetCanvas(side, installed) ==
  LET r == getCanvas(canvasPool, metrics, side, side, poolNext, installed)
  IN /\ canvasPool' = r.canvasPool
     /\ metrics' = r.metrics
     /\ poolHeld' = IF r.threw THEN poolHeld
                    ELSE poolHeld \cup {[canvas |-> r.canvas, side |-> side]}
     /\ poolNext' = IF r.hit \/ r.threw THEN poolNext ELSE poolNext + 1
     /\ now' = now + 1
     /\ poolLast' = [op |-> "getCanvas", hit |-> r.hit, canvas |-> r.canvas,
                     threw |-> r.threw, poolBefore |-> canvasPool,
                     metricsBefore |-> metrics,
                     previous |-> IF poolLast.op = "getCanvas"
                                  THEN poolLast.canvas ELSE NoCanvas]

\* returnCanvas(canvas, side, side) by the caller who holds the canvas
PReturnCanvas(held) ==
  /\ canvasPool' =
       returnCanvas(canvasPool, held.canvas, held.side, held.side, now)
  /\ poolHeld' = poolHeld \ {held}
  /\ now' = now + 1
  /\ poolLast' = [op |-> "returnCanvas", poolBefore |-> canvasPool,
                  entry |-> PooledCanvas(held.canvas, held.side, held.side,
                                         now)]
  /\ UNCHANGED <<poolNext, metrics>>

\* returnCanvas(canvas, width, height) once more, by a caller who got the
\* canvas from getCanvas and has returned it already: entry is the pool
\* entry of that return
PReturnCanvasAgain(entry) ==
  /\ canvasPool' =
       returnCanvas(canvasPool, entry.canvas, entry.width, entry.height, now)
  /\ now' = now + 1
  /\ poolLast' = [op |-> "returnCanvas", poolBefore |-> canvasPool,
                  entry |-> PooledCanvas(entry.canvas, entry.width,
                                         entry.height, now)]
  /\ UNCHANGED <<poolHeld, poolNext, metrics>>

----------------------------------------------------------------------------
(* NeaSmart: the fill-style cache.  gradientCache and patternCache are     *)
(* Maps, held as the sequence of their keys in insertion order.  The key   *)
(* of a gradient is the JSON text of its configuration; a positive number  *)
(* stands for a configuration and for its text.                            *)

gradientCacheMax == 100
gradientCacheKeep == 50
patternCacheMax == 50
patternCacheKeep == 25
poolTimeout == 30000

\* the fill styles passed to getCachedFillStyle: a colour string, an object
\* with a gradient configuration, an object without one
NoGradient == 0
StringFill(colour) ==
  [type |-> "string", colour |-> colour, gradient |-> NoGradient]
GradientFill(config) ==
  [type |-> "object", colour |-> Undef, gradient |-> config]

NewFillCache == [gradientCache |-> <<>>, patternCache |-> <<>>]

\* getCachedFillStyle(ctx, fillStyle): [cache, metrics, hit] after the call
getCachedFillStyle(cache, m, fillStyle) ==
  IF fillStyle.type = "string" \/ fillStyle.gradient = NoGradient
  THEN [cache |-> cache, metrics |-> m, hit |-> FALSE]
  ELSE IF fillStyle.gradient \in SeqToSet(cache.gradientCache)
  THEN [cache |-> cache, metrics |-> [m EXCEPT !.cacheHits = @ + 1],
        hit |-> TRUE]
  ELSE [cache |-> [cache EXCEPT !.gradientCache =
                                   Append(@, fillStyle.gradient)],
        metrics |-> [m EXCEPT !.cacheMisses = @ + 1], hit |-> FALSE]

\* entries.slice(-n)
LastOf(entries, n) ==
  IF Len(entries) <= n THEN entries
  ELSE SubSeq(entries, Len(entries) - n + 1, Len(entries))

cleanupCache(cache) ==
  [gradientCache |-> IF Len(cache.gradientCache) > gradientCacheMax
                     THEN LastOf(cache.gradientCache, gradientCacheKeep)
                     ELSE cache.gradientCache,
   patternCache |-> IF Len(cache.patternCache) > patternCacheMax
                    THEN LastOf(cache.patternCache, patternCacheKeep)
                    ELSE cache.patternCache]

\* cleanup() at time t: [cache, canvasPool] after the call
cleanup(cache, pool, t) ==
  [cache |-> cleanupCache(cache),
   canvasPool |-> SelectSeq(pool,
                            LAMBDA item : t - item.lastUsed < poolTimeout)]

\* a NeaSmart after construction: empty caches
KInit ==
  /\ fillCache = NewFillCache
  /\ cacheCalls = [lookups |-> 0, cleanups |-> 0]
  /\ cacheLast = [op |-> "none"]

\* getCachedFillStyle(ctx, fillStyle)
KGetCachedFillStyle(fillStyle) ==
  \E r \in {getCachedFillStyle(fillCache, metrics, fillStyle)} :
     /\ fillCache' = r.cache
     /\ metrics' = r.metrics
     /\ cacheCalls' = [cacheCalls EXCEPT !.lookups = @ + 1]
     /\ cacheLast' = [op |-> "getCachedFillStyle", fillStyle |-> fillStyle,
                      hit |-> r.hit, before |-> fillCache]
     /\ UNCHANGED canvasPool

\* cleanup()
KCleanup ==
  \E r \in {cleanup(fillCache, canvasPool, now)} :
     /\ fillCache' = r.cache
     /\ canvasPool' = r.canvasPool
     /\ cacheCalls' = [cacheCalls EXCEPT !.cleanups = @ + 1]
     /\ cacheLast' = [op |-> "cleanup", before |-> fillCache]
     /\ UNCHANGED metrics

----------------------------------------------------------------------------
(* NeaSmart, the retry-capable batcher (src/unnamed/part_004).  Its        *)
(* executeDrawOperation runs the tool in a promise callback: flush leaves  *)
(* one pending callback per operation, and a failed operation gets a       *)
(* failedOperations entry and a timer that re-queues it.                   *)

maxRetries == 3
retryDelay == 1000

\* failedOperations is a Map: at most one entry per operation id
failedGet(failed, id) == {e \in failed : e.operationId = id}
failedDelete(failed, id) == failed \ failedGet(failed, id)
failedSet(failed, operation, retryCount) ==
  failedDelete(failed, operation.id)
    \cup {[operationId |-> operation.id, operation |-> operation,
           retryCount |-> retryCount]}

\* executeBatch of part_004: between save() and restore() only the paint
\* state is set, so the context is left as it was; each operation of each
\* state group leaves a pending callback, in group order
retryExecuteBatch(operations) == Flatten(groupOperationsByState(operations))

\* flush(ctx?) of part_004: [drawQueue, pending] after the call
retryFlush(q, pending, hasContext) ==
  IF q = <<>> THEN [drawQueue |-> q, pending |-> pending]
  ELSE [drawQueue |-> <<>>,
        pending |-> IF hasContext THEN pending \o retryExecuteBatch(q)
                    ELSE pending]

\* queue of part_004: operationsBatched is incremented twice, and the
\* automatic flush is flush() without a context
retryQueue(q, m, operation) ==
  LET pushed == Append(q, operation)
  IN [drawQueue |-> IF Len(pushed) >= maxQueueSize
                    THEN retryFlush(pushed, <<>>, FALSE).drawQueue
                    ELSE pushed,
      metrics |-> [m EXCEPT !.operationsBatched = @ + 2]]

\* handleOperationFailure: [failedOperations, timers, failedLog] after it
handleOperationFailure(failed, timers, log, operation) ==
  LET existing == failedGet(failed, operation.id)
      retryCount == IF existing # {}
                    THEN (CHOOSE e \in existing : TRUE).retryCount + 1
                    ELSE 1
  IN IF retryCount <= maxRetries
     THEN [failedOperations |-> failedSet(failed, operation, retryCount),
           timers |-> Append(timers, [operationId |-> operation.id,
                                      delay |-> retryDelay * retryCount]),
           failedLog |-> log]
     ELSE [failedOperations |-> failedDelete(failed, operation.id),
           timers |-> timers,
           failedLog |-> Append(log, operation.id)]

\* retryOperation: [drawQueue, failedOperations, requeued] after it
retryOperation(q, failed, operationId) ==
  LET entry == failedGet(failed, operationId)
  IN IF entry = {}
     THEN [drawQueue |-> q, failedOperations |-> failed, requeued |-> FALSE]
     ELSE [drawQueue |-> <<(CHOOSE e \in entry : TRUE).operation>> \o q,
           failedOperations |-> failedDelete(failed, operationId),
           requeued |-> TRUE]

\* a retry-capable NeaSmart after construction
RInit ==
  /\ failedOperations = {}
  /\ retryTimers = <<>>
  /\ pendingOps = <<>>
  /\ requeueLog = <<>>
  /\ failedLog = <<>>

\* queue(shape, options)
RQueueOp(catalogue, maxCalls) ==
  /\ opNext <= maxCalls
  /\ \E entry \in catalogue :
       LET r == retryQueue(drawQueue, metrics,
                           DrawOperation(opNext, entry.shape, entry.options))
       IN /\ drawQueue' = r.drawQueue
          /\ metrics' = r.metrics
  /\ opNext' = opNext + 1
  /\ UNCHANGED <<ctx, flushCalls, sinceFlush, smLast, failedOperations,
                 retryTimers, pendingOps, requeueLog, failedLog>>

\* flush(ctx) or flush()
RFlushWith(hasContext, maxFlushes) ==
  /\ flushCalls < maxFlushes
  /\ LET r == retryFlush(drawQueue, pendingOps, hasContext)
     IN /\ drawQueue' = r.drawQueue
        /\ pendingOps' = r.pending
  /\ flushCalls' = flushCalls + 1
  /\ UNCHANGED <<ctx, metrics, opNext, sinceFlush, smLast, failedOperations,
                 retryTimers, requeueLog, failedLog>>

\* the promise callback of executeDrawOperation for the oldest pending
\* operation: the tool runs; success deletes the failedOperations entry, a
\* throw goes to handleOperationFailure
RRunTool ==
  /\ pendingOps # <<>>
  /\ \E operation \in {Head(pendingOps)} :
     \E r \in {executeDrawOperation(ctx, operation)},
        h \in {handleOperationFailure(failedOperations, retryTimers,
                                      failedLog, operation)} :
        /\ ctx' = r.ctx
        /\ failedOperations' =
             IF r.threw THEN h.failedOperations
             ELSE failedDelete(failedOperations, operation.id)
        /\ retryTimers' = IF r.threw THEN h.timers ELSE retryTimers
        /\ failedLog' = IF r.threw THEN h.failedLog ELSE failedLog
  /\ pendingOps' = Tail(pendingOps)
  /\ UNCHANGED <<drawQueue, metrics, opNext, flushCalls, sinceFlush, smLast,
                 requeueLog>>

\* a timer fires and runs retryOperation; a timer set earlier with a delay
\* that is not longer fires first
RTimerFires ==
  \E k \in 1..Len(retryTimers) :
    /\ \A j \in 1..(k - 1) : retryTimers[j].delay > retryTimers[k].delay
    /\ LET r == retryOperation(drawQueue, failedOperations,
                               retryTimers[k].operationId)
       IN /\ drawQueue' = r.drawQueue
          /\ failedOperations' = r.failedOperations
          /\ requeueLog' = IF r.requeued
                           THEN Append(requeueLog, retryTimers[k].operationId)
                           ELSE requeueLog
    /\ retryTimers' = RemoveAt(retryTimers, k)
    /\ UNCHANGED <<metrics, ctx, opNext, flushCalls, sinceFlush, smLast,
                   pendingOps, failedLog>>

----------------------------------------------------------------------------
(* NeaInteractive: the registry of interactive shapes and its spatial      *)
(* index.  The state is h = [registeredShapes, spatialIndex];              *)
(* registeredShapes is a Map, a sequence in insertion order with one entry *)
(* per shapeId.                                                            *)

\* a DrawConfig with or without an onClick handler; radiusX and radiusY are
\* absent
InteractiveConfig(x, y, width, radius, onClick) ==
  [onClick |-> onClick, onHover |-> FALSE, onTouch |-> FALSE,
   onTouchStart |-> FALSE, onTouchMove |-> FALSE, onTouchEnd |-> FALSE,
   onTap |-> FALSE, onDoubleTap |-> FALSE, onHold |-> FALSE]
    @@ DrawConfig(x, y, width, radius, Undef, Undef, UndefNum)

\* a DrawConfig carrying the handlers named in hs
HandlerConfig(x, y, width, hs) ==
  [onClick |-> "onClick" \in hs, onHover |-> "onHover" \in hs,
   onTouch |-> "onTouch" \in hs, onTouchStart |-> "onTouchStart" \in hs,
   onTouchMove |-> "onTouchMove" \in hs, onTouchEnd |-> "onTouchEnd" \in hs,
   onTap |-> "onTap" \in hs, onDoubleTap |-> "onDoubleTap" \in hs,
   onHold |-> "onHold" \in hs]
    @@ DrawConfig(x, y, width, UndefNum, Undef, Undef, UndefNum)

\* hasTouchHandlers(options)
hasTouchHandlers(options) ==
  \/ options.onTouch \/ options.onTouchStart \/ options.onTouchMove
  \/ options.onTouchEnd \/ options.onTap \/ options.onDoubleTap
  \/ options.onHold

\* calculateShapeBounds
calculateShapeBounds(options) ==
  LET width0 == IF options.width # UndefNum THEN options.width ELSE 100
      height0 == IF options.height # UndefNum THEN options.height ELSE 100
      width1 == IF options.radius # UndefNum THEN options.radius * 2
                ELSE width0
      height1 == IF options.radius # UndefNum THEN options.radius * 2
                 ELSE height0
      elliptic == options.radiusX # UndefNum /\ options.radiusY # UndefNum
  IN Rect(options.x, options.y,
          IF elliptic THEN options.radiusX * 2 ELSE width1,
          IF elliptic THEN options.radiusY * 2 ELSE height1)

\* this.layoutConfigs.get(layoutName) || { x: 0, y: 0, width: 0, height: 0 }
layoutConfigOf(h, layoutName) ==
  IF layoutName \in DOMAIN h.layoutConfigs THEN h.layoutConfigs[layoutName]
  ELSE Rect(0, 0, 0, 0)

\* setLayoutConfig(layoutName, config)
setLayoutConfig(h, layoutName, config) ==
  [h EXCEPT !.layoutConfigs =
     [n \in DOMAIN h.layoutConfigs \cup {layoutName} |->
        IF n = layoutName THEN config ELSE h.layoutConfigs[n]]]

\* registeredShapes.get(shapeId): the index of the entry, 0 when absent
findIndexByShapeId(shapes, shapeId) ==
  IF \E i \in 1..Len(shapes) : shapes[i].shapeId = shapeId
  THEN CHOOSE i \in 1..Len(shapes) : shapes[i].shapeId = shapeId
  ELSE 0

\* set(shapeId, options, layoutName)
\* set without the removal of the entry of an earlier registration
set_keepPrevious(h, shapeId, options, layoutName) ==
  IF ~ (options.onClick \/ options.onHover \/ hasTouchHandlers(options))
  THEN h
  ELSE LET bounds == calculateShapeBounds(options)
           k == findIndexByShapeId(h.registeredShapes, shapeId)
           shape == [shapeId |-> shapeId, options |-> options,
                     layoutName |-> layoutName, bounds |-> bounds,
                     layoutConfig |-> layoutConfigOf(h, layoutName)]
       IN [layoutConfigs |-> h.layoutConfigs,
           registeredShapes |->
             IF k # 0 THEN [h.registeredShapes EXCEPT ![k] = shape]
             ELSE Append(h.registeredShapes, shape),
           spatialIndex |->
             insert(h.spatialIndex, SpatialObject(shapeId, bounds))]

\* set(shapeId, options, layoutName)
set(h, shapeId, options, layoutName) ==
  IF ~ (options.onClick \/ options.onHover \/ hasTouchHandlers(options))
  THEN h
  ELSE LET bounds == calculateShapeBounds(options)
           k == findIndexByShapeId(h.registeredShapes, shapeId)
           removed ==
             IF k # 0
             THEN remove(h.spatialIndex,
                         SpatialObject(shapeId,
                                       h.registeredShapes[k].bounds)).tree
             ELSE h.spatialIndex
           shape == [shapeId |-> shapeId, options |-> options,
                     layoutName |-> layoutName, bounds |-> bounds,
                     layoutConfig |-> layoutConfigOf(h, layoutName)]
       IN [layoutConfigs |-> h.layoutConfigs,
           registeredShapes |->
             IF k # 0 THEN [h.registeredShapes EXCEPT ![k] = shape]
             ELSE Append(h.registeredShapes, shape),
           spatialIndex |-> insert(removed, SpatialObject(shapeId, bounds))]

\* pointInBounds: the bounds are inclusive on all four edges
pointInBounds(x, y, bounds) ==
  /\ x >= bounds.x
  /\ x <= bounds.x + bounds.width
  /\ y >= bounds.y
  /\ y <= bounds.y + bounds.height

NoShape == [found |-> FALSE, shapeId |-> ""]

\* the loop of findShapeAt over the candidates
RECURSIVE firstContaining(_, _, _, _)
firstContaining(shapes, candidates, x, y) ==
  IF candidates = <<>> THEN NoShape
  ELSE LET k == findIndexByShapeId(shapes, Head(candidates).id)
       IN IF k # 0 /\ pointInBounds(x, y, shapes[k].bounds)
          THEN [found |-> TRUE, shapeId |-> shapes[k].shapeId]
          ELSE firstContaining(shapes, Tail(candidates), x, y)

\* findShapeAt(x, y)
findShapeAt(h, x, y) ==
  firstContaining(h.registeredShapes, queryPoint(h.spatialIndex, x, y), x, y)

\* updateBounds(width, height): the index is rebuilt from the registry
RECURSIVE insertShapes(_, _)
insertShapes(t, shapes) ==
  IF shapes = <<>> THEN t
  ELSE insertShapes(
         insert(t, SpatialObject(Head(shapes).shapeId, Head(shapes).bounds)),
         Tail(shapes))

updateBounds(h, width, height) ==
  [layoutConfigs |-> h.layoutConfigs,
   registeredShapes |-> h.registeredShapes,
   spatialIndex |->
     insertShapes(QuadTree(0, 0, width, height, 0), h.registeredShapes)]

\* a NeaInteractive after construction
HInit ==
  /\ interactive = [layoutConfigs |-> <<>>, registeredShapes |-> <<>>,
                    spatialIndex |-> QuadTree(0, 0, RootSize, RootSize, 0)]
  /\ hitCalls = 0
  /\ hitLast = [op |-> "none"]
  /\ drawOrder = <<>>

\* set(shapeId, options, layoutName)
HSet(shapeId, options, layoutName) ==
  /\ interactive' = set(interactive, shapeId, options, layoutName)
  /\ hitCalls' = hitCalls + 1
  /\ hitLast' = [op |-> "set", shapeId |-> shapeId, options |-> options,
                 layoutName |-> layoutName, before |-> interactive]
  /\ drawOrder' =
       IF ~ (options.onClick \/ options.onHover \/ hasTouchHandlers(options))
       THEN drawOrder
       ELSE Append(SelectSeq(drawOrder, LAMBDA s : s # shapeId), shapeId)

\* setLayoutConfig(layoutName, config)
HSetLayoutConfig(layoutName, config) ==
  /\ interactive' = setLayoutConfig(interactive, layoutName, config)
  /\ hitCalls' = hitCalls + 1
  /\ hitLast' = [op |-> "setLayoutConfig", layoutName |-> layoutName]
  /\ UNCHANGED drawOrder

\* findShapeAt(x, y), as handleClick calls it
HFindShapeAt(x, y) ==
  /\ hitLast' = [op |-> "findShapeAt", x |-> x, y |-> y,
                 result |-> findShapeAt(interactive, x, y)]
  /\ UNCHANGED <<interactive, hitCalls, drawOrder>>

\* updateBounds(side, side)
HUpdateBounds(side) ==
  /\ interactive' = updateBounds(interactive, side, side)
  /\ hitCalls' = hitCalls + 1
  /\ hitLast' = [op |-> "updateBounds", side |-> side,
                 before |-> interactive]
  /\ UNCHANGED drawOrder

----------------------------------------------------------------------------
(* NeaInteractive: mouse and touch dispatch.  p is the record of the       *)
(* listener, throttle, hover and touch fields of a NeaInteractive and h    *)
(* its [registeredShapes, spatialIndex].  A handler returns the fields     *)
(* after the call, the events it dispatched to shape handlers, the timers  *)
(* it scheduled with setTimeout and the timer ids it cleared.  A mouse     *)
(* event or native touch is [identifier, x, y] in client coordinates; a    *)
(* touch event is [touches, changedTouches].                               *)

\* the values of Default.TOUCH_HOLD_DURATION, DOUBLE_TAP_DELAY,
\* TOUCH_MOVE_THRESHOLD, TOUCH_THROTTLE_DELAY and MAX_TOUCH_POINTS
TOUCH_HOLD_DURATION == 500
DOUBLE_TAP_DELAY == 300
TOUCH_MOVE_THRESHOLD == 10
TOUCH_THROTTLE_DELAY == 16
MAX_TOUCH_POINTS == 10

\* the delay of the hover timer
HoverThrottleDelay == 16

\* null for a timer id; the host's ids are positive
NoTimer == 0

\* Date.now() when the NeaInteractive is constructed
StartTime == 1000

NativePoint(identifier, x, y) == [identifier |-> identifier, x |-> x, y |-> y]

\* a TouchPoint, in canvas coordinates
TouchPoint(identifier, x, y) == [identifier |-> identifier, x |-> x, y |-> y]

\* a pending setTimeout: its id, callback, due time and what the callback
\* closes over
Timer(id, kind, due, payload) ==
  [id |-> id, kind |-> kind, due |-> due, payload |-> payload]

\* an InteractiveEvent handed to a shape's handler
Dispatched(type, shapeId, x, y) ==
  [type |-> type, shapeId |-> shapeId, x |-> x, y |-> y]

\* canvasElement: null, or an element with its bounding rectangle
NoElement ==
  [present |-> FALSE, left |-> 0, top |-> 0, width |-> 0, height |-> 0,
   rectWidth |-> 0, rectHeight |-> 0]

\* lastTapPosition: null
NoPosition == [present |-> FALSE, x |-> 0, y |-> 0]

\* the fields of a NeaInteractive after construction; touchListeners tells
\* whether enable() attached the touch listeners
NewPointer ==
  [enabled |-> FALSE, hoverThrottleId |-> NoTimer,
   currentHoveredShape |-> "", canvasElement |-> NoElement,
   touchEnabled |-> FALSE, touchListeners |-> FALSE,
   maxTouchPoints |-> MAX_TOUCH_POINTS,
   touchThrottleDelay |-> TOUCH_THROTTLE_DELAY, activeTouches |-> {},
   touchThrottleId |-> NoTimer, lastTapTime |-> 0,
   lastTapPosition |-> NoPosition, holdTimeoutId |-> NoTimer]

\* enable()
enable(p) ==
  IF p.enabled THEN p
  ELSE [p EXCEPT !.enabled = TRUE, !.touchListeners = p.touchEnabled]

\* enableTouchSupport() on a touch device, without options
enableTouchSupport(p) ==
  [p EXCEPT !.touchEnabled = TRUE, !.maxTouchPoints = MAX_TOUCH_POINTS,
            !.touchThrottleDelay = TOUCH_THROTTLE_DELAY]

\* getCanvasCoordinates(event), without a coordinate transformer
getCanvasCoordinates(el, event) ==
  IF ~ el.present
  THEN [x |-> event.x, y |-> event.y]
  ELSE [x |-> ((event.x - el.left) * el.width) \div el.rectWidth,
        y |-> ((event.y - el.top) * el.height) \div el.rectHeight]

\* processTouchList(touchList), without a coordinate transformer
processTouchList(el, touchList) ==
  IF ~ el.present
  THEN <<>>
  ELSE [i \in 1..Len(touchList) |->
          TouchPoint(touchList[i].identifier, touchList[i].x - el.left,
                     touchList[i].y - el.top)]

\* updateActiveTouches(touches) on the Map keyed by identifier
updateActiveTouches(active, touches) ==
  {a \in active :
     \A i \in 1..Len(touches) : touches[i].identifier # a.identifier}
    \cup SeqToSet(touches)

\* removeFinishedTouches(finishedTouches)
removeFinishedTouches(active, finishedTouches) ==
  {a \in active :
     \A i \in 1..Len(finishedTouches) :
       finishedTouches[i].identifier # a.identifier}

NoOptions == HandlerConfig(0, 0, 0, {})

\* findShapeAt(x, y) with the options of the shape found
hitShapeAt(h, x, y) ==
  LET r == findShapeAt(h, x, y)
  IN IF r.found
     THEN [found |-> TRUE, shapeId |-> r.shapeId,
           options |->
             h.registeredShapes[
               findIndexByShapeId(h.registeredShapes, r.shapeId)].options]
     ELSE [found |-> FALSE, shapeId |-> "", options |-> NoOptions]

\* what a handler that returns at once leaves behind
Nothing(p) ==
  [pointer |-> p, fired |-> <<>>, scheduled |-> {}, cancelled |-> {},
   threw |-> FALSE]

\* handleMouseMove without the test of hoverThrottleId
handleMouseMove_unthrottled(p, event, fresh, t) ==
  IF ~ p.enabled
  THEN Nothing(p)
  ELSE [Nothing([p EXCEPT !.hoverThrottleId = fresh])
          EXCEPT !.scheduled =
                   {Timer(fresh, "hover", t + HoverThrottleDelay, <<event>>)}]

\* handleMouseMove(event) at time t, fresh being the id setTimeout returns
handleMouseMove(p, event, fresh, t) ==
  IF ~ p.enabled \/ p.hoverThrottleId # NoTimer
  THEN Nothing(p)
  ELSE [Nothing([p EXCEPT !.hoverThrottleId = fresh])
          EXCEPT !.scheduled =
                   {Timer(fresh, "hover", t + HoverThrottleDelay, <<event>>)}]

\* processHoverEvent dispatching on every poll over a shape with onHover
processHoverEvent_everyPoll(p, h, event) ==
  LET pt == getCanvasCoordinates(p.canvasElement, event)
      hitShape == hitShapeAt(h, pt.x, pt.y)
  IN [Nothing([p EXCEPT !.currentHoveredShape = hitShape.shapeId])
        EXCEPT !.fired =
                 IF hitShape.found /\ hitShape.options.onHover
                 THEN <<Dispatched("hover", hitShape.shapeId, pt.x, pt.y)>>
                 ELSE <<>>]

\* processHoverEvent(event); null and '' are both the shape id ""
processHoverEvent(p, h, event) ==
  LET pt == getCanvasCoordinates(p.canvasElement, event)
      hitShape == hitShapeAt(h, pt.x, pt.y)
      newHoveredShapeId == hitShape.shapeId
  IN IF p.currentHoveredShape # newHoveredShapeId
     THEN [Nothing([p EXCEPT !.currentHoveredShape = newHoveredShapeId])
             EXCEPT !.fired =
                      IF hitShape.found /\ hitShape.options.onHover
                      THEN <<Dispatched("hover", hitShape.shapeId,
                                        pt.x, pt.y)>>
                      ELSE <<>>]
     ELSE Nothing(p)

\* the callback of the hover timer
hoverCallback(p, h, event) ==
  LET r == processHoverEvent(p, h, event)
  IN [r EXCEPT !.pointer = [r.pointer EXCEPT !.hoverThrottleId = NoTimer]]

\* clearHoldDetection()
clearHoldDetection(p) ==
  IF p.holdTimeoutId # NoTimer
  THEN [Nothing([p EXCEPT !.holdTimeoutId = NoTimer])
          EXCEPT !.cancelled = {p.holdTimeoutId}]
  ELSE Nothing(p)

\* setupHoldDetection(touch) at time t
setupHoldDetection(p, touch, fresh, t) ==
  LET c == clearHoldDetection(p)
  IN [c EXCEPT !.pointer = [c.pointer EXCEPT !.holdTimeoutId = fresh],
               !.scheduled =
                 {Timer(fresh, "hold", t + TOUCH_HOLD_DURATION, <<touch>>)}]

\* the callback of the hold timer; holdTimeoutId keeps the spent id
holdCallback(p, h, touch) ==
  LET hitShape == hitShapeAt(h, touch.x, touch.y)
  IN [Nothing(p)
        EXCEPT !.fired =
                 IF hitShape.found /\ hitShape.options.onHold
                 THEN <<Dispatched("hold", hitShape.shapeId,
                                   touch.x, touch.y)>>
                 ELSE <<>>]

\* handleTouchStart(event) at time t
handleTouchStart(p, h, event, fresh, t) ==
  IF ~ p.enabled \/ ~ p.touchEnabled
  THEN Nothing(p)
  ELSE IF Len(event.touches) > p.maxTouchPoints
  THEN [Nothing(p) EXCEPT !.threw = TRUE]
  ELSE LET touches == processTouchList(p.canvasElement, event.touches)
           p1 == [p EXCEPT !.activeTouches =
                             updateActiveTouches(@, touches)]
       IN IF Len(touches) = 1
          THEN LET touch == touches[1]
                   s == setupHoldDetection(p1, touch, fresh, t)
                   hitShape == hitShapeAt(h, touch.x, touch.y)
               IN [s EXCEPT !.fired =
                              IF hitShape.found
                                 /\ hitShape.options.onTouchStart
                              THEN <<Dispatched("touchstart",
                                                hitShape.shapeId,
                                                touch.x, touch.y)>>
                              ELSE <<>>]
          ELSE Nothing(p1)

\* handleTouchMove(event) at time t
handleTouchMove(p, event, fresh, t) ==
  IF ~ p.enabled \/ ~ p.touchEnabled \/ p.touchThrottleId # NoTimer
  THEN Nothing(p)
  ELSE LET c == clearHoldDetection(p)
       IN [c EXCEPT !.pointer = [c.pointer EXCEPT !.touchThrottleId = fresh],
                    !.scheduled =
                      {Timer(fresh, "touchmove", t + p.touchThrottleDelay,
                             event.touches)}]

\* processTouchMoveEvent(event)
processTouchMoveEvent(p, h, touchList) ==
  LET touches == processTouchList(p.canvasElement, touchList)
      moved == SelectSeq(touches,
                         LAMBDA touch :
                           LET hitShape == hitShapeAt(h, touch.x, touch.y)
                           IN hitShape.found /\ hitShape.options.onTouchMove)
  IN [Nothing([p EXCEPT !.activeTouches = updateActiveTouches(@, touches)])
        EXCEPT !.fired =
                 [i \in 1..Len(moved) |->
                    Dispatched("touchmove",
                               hitShapeAt(h, moved[i].x, moved[i].y).shapeId,
                               moved[i].x, moved[i].y)]]

\* the callback of the touch-move throttle timer
touchMoveCallback(p, h, touchList) ==
  LET r == processTouchMoveEvent(p, h, touchList)
  IN [r EXCEPT !.pointer = [r.pointer EXCEPT !.touchThrottleId = NoTimer]]

\* detectTapEvents comparing the positions on the x axis only
detectTapEvents_xOnly(p, hitShape, touch, t) ==
  LET isDoubleTap ==
        /\ p.lastTapTime > 0
        /\ t - p.lastTapTime < DOUBLE_TAP_DELAY
        /\ p.lastTapPosition.present
        /\ Abs(p.lastTapPosition.x - touch.x) < TOUCH_MOVE_THRESHOLD
  IN IF isDoubleTap /\ hitShape.options.onDoubleTap
     THEN [Nothing([p EXCEPT !.lastTapTime = 0,
                             !.lastTapPosition = NoPosition])
             EXCEPT !.fired = <<Dispatched("doubletap", hitShape.shapeId,
                                           touch.x, touch.y)>>]
     ELSE [Nothing([p EXCEPT !.lastTapTime = t,
                             !.lastTapPosition =
                               [present |-> TRUE, x |-> touch.x,
                                y |-> touch.y]])
             EXCEPT !.fired =
                      IF hitShape.options.onTap
                      THEN <<Dispatched("tap", hitShape.shapeId,
                                        touch.x, touch.y)>>
                      ELSE <<>>]

\* detectTapEvents(hitShape, touch) with Date.now() = t
detectTapEvents(p, hitShape, touch, t) ==
  LET isDoubleTap ==
        /\ p.lastTapTime > 0
        /\ t - p.lastTapTime < DOUBLE_TAP_DELAY
        /\ p.lastTapPosition.present
        /\ Abs(p.lastTapPosition.x - touch.x) < TOUCH_MOVE_THRESHOLD
        /\ Abs(p.lastTapPosition.y - touch.y) < TOUCH_MOVE_THRESHOLD
  IN IF isDoubleTap /\ hitShape.options.onDoubleTap
     THEN [Nothing([p EXCEPT !.lastTapTime = 0,
                             !.lastTapPosition = NoPosition])
             EXCEPT !.fired = <<Dispatched("doubletap", hitShape.shapeId,
                                           touch.x, touch.y)>>]
     ELSE [Nothing([p EXCEPT !.lastTapTime = t,
                             !.lastTapPosition =
                               [present |-> TRUE, x |-> touch.x,
                                y |-> touch.y]])
             EXCEPT !.fired =
                      IF hitShape.options.onTap
                      THEN <<Dispatched("tap", hitShape.shapeId,
                                        touch.x, touch.y)>>
                      ELSE <<>>]

\* handleTouchEnd(event) at time t
handleTouchEnd(p, h, event, t) ==
  IF ~ p.enabled \/ ~ p.touchEnabled
  THEN Nothing(p)
  ELSE LET c == clearHoldDetection(p)
           touches == processTouchList(p.canvasElement, event.changedTouches)
           hitShape == hitShapeAt(h, touches[1].x, touches[1].y)
           d == detectTapEvents(c.pointer, hitShape, touches[1], t)
           r == IF Len(touches) = 1 /\ hitShape.found
                THEN [d EXCEPT !.cancelled = c.cancelled,
                               !.fired =
                                 (IF hitShape.options.onTouchEnd
                                  THEN <<Dispatched("touchend",
                                                    hitShape.shapeId,
                                                    touches[1].x,
                                                    touches[1].y)>>
                                  ELSE <<>>) \o d.fired]
                ELSE c
       IN [r EXCEPT !.pointer =
                      [r.pointer EXCEPT !.activeTouches =
                                          removeFinishedTouches(@, touches)]]

\* a NeaInteractive after construction, on a host with no timer pending and
\* no touch on the screen
EInit ==
  /\ pointer = NewPointer
  /\ hostTimers = {}
  /\ timerNext = 1
  /\ clock = StartTime
  /\ fingers = <<>>
  /\ touchNext = 0
  /\ eventCount = 0
  /\ waitCount = 0
  /\ evLast = [op |-> "none"]
  /\ hoverPolls = <<>>
  /\ taps = <<>>
  /\ touchLog = {}
  /\ mouseAt = [present |-> FALSE, event |-> NativePoint(0, 0, 0)]

\* what a handler's outcome r does to the fields and to the host's timers
EApply(r) ==
  /\ pointer' = r.pointer
  /\ hostTimers' = {t \in hostTimers : t.id \notin r.cancelled}
                     \cup r.scheduled
  /\ timerNext' = IF r.scheduled = {} THEN timerNext ELSE timerNext + 1

\* set(shapeId, options, layoutName)
ESet(shapeId, options) ==
  /\ interactive' = set(interactive, shapeId, options, "main")
  /\ UNCHANGED eVars

\* setCanvasElement(canvas)
ESetCanvasElement(el) ==
  /\ pointer' = [pointer EXCEPT !.canvasElement = el]
  /\ UNCHANGED <<mouseAt, interactive, hostTimers, timerNext, clock, fingers,
                 touchNext, eventCount, waitCount, evLast, hoverPolls, taps,
                 touchLog>>

\* enableTouchSupport()
EEnableTouchSupport ==
  /\ pointer' = enableTouchSupport(pointer)
  /\ UNCHANGED <<mouseAt, interactive, hostTimers, timerNext, clock, fingers,
                 touchNext, eventCount, waitCount, evLast, hoverPolls, taps,
                 touchLog>>

\* enable()
EEnable ==
  /\ pointer' = enable(pointer)
  /\ UNCHANGED <<mouseAt, interactive, hostTimers, timerNext, clock, fingers,
                 touchNext, eventCount, waitCount, evLast, hoverPolls, taps,
                 touchLog>>

\* the host delivers a mousemove event
EMouseMove(event) ==
  /\ \E r \in {handleMouseMove(pointer, event, timerNext, clock)} :
       EApply(r)
  /\ eventCount' = eventCount + 1
  /\ mouseAt' = [present |-> TRUE, event |-> event]
  /\ evLast' = [op |-> "mousemove",
                pendingBefore |-> \E t \in hostTimers : t.kind = "hover",
                timersBefore |-> hostTimers]
  /\ UNCHANGED <<interactive, clock, fingers, touchNext, waitCount,
                 hoverPolls, taps, touchLog>>

\* the timers the host runs next: due, and none due earlier or, among those
\* due at the same time, set earlier
DueTimers ==
  {t \in hostTimers :
     /\ t.due <= clock
     /\ \A u \in hostTimers :
          t.due < u.due \/ (t.due = u.due /\ t.id <= u.id)}

\* the callback of timer t
timerCallback(p, h, t) ==
  IF t.kind = "hover" THEN hoverCallback(p, h, t.payload[1])
  ELSE IF t.kind = "touchmove" THEN touchMoveCallback(p, h, t.payload)
  ELSE holdCallback(p, h, t.payload[1])

\* the shape under the mouse event, by findShapeAt
resolvedAt(p, h, event) ==
  findShapeAt(h, getCanvasCoordinates(p.canvasElement, event).x,
              getCanvasCoordinates(p.canvasElement, event).y).shapeId

\* the host runs the callback of a due timer
ERunTimer ==
  /\ \E t \in DueTimers :
       \E r \in {timerCallback(pointer, interactive, t)} :
         /\ pointer' = r.pointer
         /\ hostTimers' = hostTimers \ {t}
         /\ evLast' = [op |-> "timer", timer |-> t, fired |-> r.fired]
         /\ hoverPolls' =
              IF t.kind = "hover"
              THEN Append(hoverPolls,
                          [at |-> clock,
                           resolved |-> resolvedAt(pointer, interactive,
                                                   t.payload[1]),
                           fired |-> r.fired])
              ELSE hoverPolls
  /\ UNCHANGED <<mouseAt, interactive, timerNext, clock, fingers, touchNext,
                 eventCount, waitCount, taps, touchLog>>

\* d ms pass without an event and without a timer coming due before the end
EAdvance(d) ==
  /\ d > 0
  /\ \A t \in hostTimers : t.due >= clock + d
  /\ clock' = clock + d
  /\ waitCount' = waitCount + 1
  /\ UNCHANGED <<mouseAt, interactive, pointer, hostTimers, timerNext, fingers,
                 touchNext, eventCount, evLast, hoverPolls, taps, touchLog>>

\* the log keeps, per touch, the time of the first touch-move or touch-end
\* delivered for it
logTouch(log, identifier, t) ==
  IF \E e \in log : e.identifier = identifier
  THEN log
  ELSE log \cup {[identifier |-> identifier, at |-> t]}

TouchEvent(touches, changedTouches) ==
  [touches |-> touches, changedTouches |-> changedTouches]

\* a touch is put down at client point pt: the host delivers touchstart
ETouchStart(pt) ==
  LET finger == NativePoint(touchNext, pt.x, pt.y)
      event == TouchEvent(Append(fingers, finger), <<finger>>)
  IN /\ \E r \in {handleTouchStart(pointer, interactive, event, timerNext,
                                   clock)} :
          /\ EApply(r)
          /\ evLast' = [op |-> "touchstart", touch |-> finger,
                        fired |-> r.fired, threw |-> r.threw]
     /\ fingers' = Append(fingers, finger)
     /\ touchNext' = touchNext + 1
     /\ eventCount' = eventCount + 1
     /\ UNCHANGED <<mouseAt, interactive, clock, waitCount, hoverPolls, taps,
                    touchLog>>

\* touch k moves to client point pt: the host delivers touchmove
ETouchMove(k, pt) ==
  LET finger == NativePoint(fingers[k].identifier, pt.x, pt.y)
      moved == [fingers EXCEPT ![k] = finger]
      event == TouchEvent(moved, <<finger>>)
  IN /\ <<fingers[k].x, fingers[k].y>> # <<pt.x, pt.y>>
     /\ \E r \in {handleTouchMove(pointer, event, timerNext, clock)} :
          /\ EApply(r)
          /\ evLast' = [op |-> "touchmove", touch |-> finger,
                        fired |-> r.fired, threw |-> r.threw]
     /\ fingers' = moved
     /\ touchLog' = logTouch(touchLog, finger.identifier, clock)
     /\ eventCount' = eventCount + 1
     /\ UNCHANGED <<mouseAt, interactive, clock, touchNext, waitCount,
                    hoverPolls, taps>>

\* touch k is lifted: the host delivers touchend
ETouchEnd(k) ==
  LET finger == fingers[k]
      rest == SelectSeq(fingers,
                        LAMBDA f : f.identifier # finger.identifier)
      event == TouchEvent(rest, <<finger>>)
      x == finger.x - pointer.canvasElement.left
      y == finger.y - pointer.canvasElement.top
      over == findShapeAt(interactive, x, y)
  IN /\ \E r \in {handleTouchEnd(pointer, interactive, event, clock)} :
          /\ EApply(r)
          /\ evLast' = [op |-> "touchend", touch |-> finger,
                        fired |-> r.fired, threw |-> r.threw]
          /\ taps' = IF over.found
                     THEN Append(taps,
                                 [at |-> clock, x |-> x, y |-> y,
                                  shapeId |-> over.shapeId,
                                  onTap |->
                                    hitShapeAt(interactive, x, y)
                                      .options.onTap,
                                  fired |-> r.fired])
                     ELSE taps
     /\ fingers' = rest
     /\ touchLog' = logTouch(touchLog, finger.identifier, clock)
     /\ eventCount' = eventCount + 1
     /\ UNCHANGED <<mouseAt, interactive, clock, touchNext, waitCount,
                    hoverPolls>>

----------------------------------------------------------------------------
(* NeaCanvas, NeaLayout and NeaExport.  A layout is a record               *)
(* [name, config, drawQueue, metrics, ctx, dirty, shapes]: its NeaSmart    *)
(* (queue, metrics, dirty regions), its canvas context and its Map of      *)
(* shapes in insertion order.  A layout is SurfaceWidth wide and high; the *)
(* canvas holds CanvasColumns layouts side by side.                        *)

MAX_DIMENSION == 16384
MAX_RADIUS == 10000
CanvasColumns == 2
CanvasWidth == CanvasColumns * SurfaceWidth

LayoutConfig(x) ==
  [x |-> x, y |-> 0, width |-> SurfaceWidth, height |-> SurfaceWidth]

\* NeaLayout.create(config): the constructor and initCanvas
NewLayout(name, config) ==
  [name |-> name, config |-> config, drawQueue |-> <<>>,
   metrics |-> NewMetrics, ctx |-> NewContext,
   dirty |-> [dirtyRegions |-> <<>>,
              spatialDirtyIndex |-> QuadTree(0, 0, RootSize, RootSize, 0)],
   shapes |-> <<>>]

\* validateLayoutBounds passes
validLayoutBounds(config) ==
  ~ ( \/ config.x < 0
      \/ config.y < 0
      \/ config.x + config.width > CanvasWidth
      \/ config.y + config.height > SurfaceWidth )

\* layoutsOverlap: layouts that only touch do not overlap
layoutsOverlap(layout1, layout2) ==
  ~ ( \/ layout1.x + layout1.width <= layout2.x
      \/ layout2.x + layout2.width <= layout1.x
      \/ layout1.y + layout1.height <= layout2.y
      \/ layout2.y + layout2.height <= layout1.y )

\* NeaCanvas.create(name, config): [layouts, threw] after the call
create(ls, name, config) ==
  IF \/ \E i \in 1..Len(ls) : ls[i].name = name
     \/ ~ validLayoutBounds(config)
     \/ \E i \in 1..Len(ls) : layoutsOverlap(config, ls[i].config)
  THEN [layouts |-> ls, threw |-> TRUE]
  ELSE [layouts |-> Append(ls, NewLayout(name, config)), threw |-> FALSE]

\* NeaCanvas.create up to its await: TRUE if one of the checks throws
createRejects(ls, name, config) ==
  \/ \E i \in 1..Len(ls) : ls[i].name = name
  \/ ~ validLayoutBounds(config)
  \/ \E i \in 1..Len(ls) : layoutsOverlap(config, ls[i].config)

\* this.layouts.set(name, layout): a Map keeps the position of a key it has
layoutsSet(ls, name, layout) ==
  IF \E i \in 1..Len(ls) : ls[i].name = name
  THEN [i \in 1..Len(ls) |-> IF ls[i].name = name THEN layout ELSE ls[i]]
  ELSE Append(ls, layout)

\* validateDrawInputs passes
validDrawInputs(options) ==
  /\ options.x # UndefNum /\ options.y # UndefNum
  /\ options.x >= -COORDINATE_RANGE /\ options.x <= COORDINATE_RANGE
  /\ options.y >= -COORDINATE_RANGE /\ options.y <= COORDINATE_RANGE

\* calculateShapeDimensions for a circle and for the shapes sized as a
\* rectangle: [width, height, threw]
calculateShapeDimensions(shapeName, options) ==
  IF shapeName = "circle"
  THEN LET radius == OrElseNum(options.radius, 50)
       IN [width |-> radius * 2, height |-> radius * 2,
           threw |-> radius <= 0 \/ radius > MAX_RADIUS]
  ELSE LET width == OrElseNum(options.width, 100)
           height == OrElseNum(options.height, 100)
       IN [width |-> width, height |-> height,
           threw |-> \/ width < 0 \/ height < 0
                     \/ width > MAX_DIMENSION \/ height > MAX_DIMENSION]

\* validateShapeBounds passes
validShapeBounds(l, options, shapeWidth, shapeHeight) ==
  ~ ( \/ options.x < 0
      \/ options.y < 0
      \/ options.x + shapeWidth > l.config.width
      \/ options.y + shapeHeight > l.config.height )

\* NeaLayout.draw(shapeName, options), id being the fresh id of the
\* operation, of the dirty region and of the shape: [layout, threw]
draw(l, shapeName, options, id) ==
  LET dims == calculateShapeDimensions(shapeName, options)
  IN IF \/ ~ validDrawInputs(options)
        \/ dims.threw
        \/ ~ validShapeBounds(l, options, dims.width, dims.height)
     THEN [layout |-> l, threw |-> TRUE]
     ELSE LET queued == queue(l.drawQueue, l.metrics,
                              DrawOperation(id, shapeName, options))
              marked == markDirty(l.dirty,
                                  Rect(options.x, options.y, dims.width,
                                       dims.height), id).d
          IN IF queued.threw
             THEN [layout |-> [l EXCEPT !.drawQueue = queued.drawQueue,
                                        !.metrics = queued.metrics],
                   threw |-> TRUE]
             ELSE [layout |->
                     [l EXCEPT !.drawQueue = queued.drawQueue,
                               !.metrics = queued.metrics,
                               !.dirty = marked,
                               !.shapes = Append(@, [shapeId |-> id,
                                                     type |-> shapeName,
                                                     options |-> options,
                                                     operationId |-> id])],
                   threw |-> FALSE]

\* NeaLayout.flush(): [layout, threw]
layoutFlush(l) ==
  Call1(LAMBDA r :
          [layout |-> [l EXCEPT !.drawQueue = r.drawQueue, !.ctx = r.ctx],
           threw |-> r.threw],
        flush(l.drawQueue, l.ctx))

\* the flush loop of NeaExport.export from layout i on, left at the first
\* layout that has shapes: [layouts, hasShapes, threw]
RECURSIVE flushUntilShapes(_, _)
flushUntilShapes(ls, i) ==
  IF i > Len(ls) THEN [layouts |-> ls, hasShapes |-> FALSE, threw |-> FALSE]
  ELSE Call1(LAMBDA r :
               Call1(LAMBDA flushed :
                       IF r.threw
                       THEN [layouts |-> flushed, hasShapes |-> FALSE,
                             threw |-> TRUE]
                       ELSE IF Len(r.layout.shapes) > 0
                       THEN [layouts |-> flushed, hasShapes |-> TRUE,
                             threw |-> FALSE]
                       ELSE flushUntilShapes(flushed, i + 1),
                     [ls EXCEPT ![i] = r.layout]),
             layoutFlush(ls[i]))

RasterFormats == {"png", "jpeg", "jpg", "pdf"}

\* drawLayoutsToContext: every layout canvas is drawn at its position
drawLayoutsToContext(ls) ==
  [i \in 1..Len(ls) |-> [x |-> ls[i].config.x, pixels |-> ls[i].ctx.pixels]]

\* NeaExport.export(options, layouts) for the formats composited from the
\* layout canvases and for an unsupported format:
\* [layouts, outcome, image, pending], pending being the number of queued
\* operations of each layout when the layouts are composited
export(ls, format) ==
  IF Len(ls) = 0
  THEN [layouts |-> ls, outcome |-> "NO_LAYOUTS_CREATED", image |-> <<>>,
        pending |-> <<>>]
  ELSE Call1(LAMBDA r :
               IF r.threw
               THEN [layouts |-> r.layouts, outcome |-> "OPERATION_FAILURE",
                     image |-> <<>>, pending |-> <<>>]
               ELSE IF ~ r.hasShapes
               THEN [layouts |-> r.layouts, outcome |-> "NO_SHAPES_DRAWN",
                     image |-> <<>>, pending |-> <<>>]
               ELSE IF format \notin RasterFormats
               THEN [layouts |-> r.layouts, outcome |-> "UNSUPPORTED_FORMAT",
                     image |-> <<>>, pending |-> <<>>]
               ELSE [layouts |-> r.layouts, outcome |-> "exported",
                     image |-> drawLayoutsToContext(r.layouts),
                     pending |-> [i \in 1..Len(r.layouts) |->
                                    Len(r.layouts[i].drawQueue)]],
             flushUntilShapes(ls, 1))

\* a NeaCanvas after init: no layout
LInit ==
  /\ layouts = <<>>
  /\ layoutNext = 1
  /\ exportLast = [op |-> "none"]

\* canvas.create(name, config)
LCreate(name, config) ==
  LET r == create(layouts, name, config)
  IN /\ layouts' = r.layouts
     /\ exportLast' = [op |-> "create", threw |-> r.threw]
     /\ UNCHANGED layoutNext

\* canvas.create(name, config) up to await NeaLayout.create: the checks
\* either throw or leave the call suspended
CCreateCall(name, config) ==
  /\ IF createRejects(layouts, name, config)
     THEN /\ createLast' = [op |-> "create rejected", name |-> name,
                            config |-> config, layoutsBefore |-> layouts]
          /\ UNCHANGED creating
     ELSE /\ creating' = creating
                           \cup {[call |-> createNext, name |-> name,
                                  config |-> config]}
          /\ createLast' = [op |-> "create suspended", name |-> name,
                            config |-> config, layoutsBefore |-> layouts]
  /\ createNext' = createNext + 1
  /\ UNCHANGED layouts

\* NeaLayout.create of the suspended call c resolves: this.layouts.set
CCreateResume(c) ==
  /\ layouts' = layoutsSet(layouts, c.name, NewLayout(c.name, c.config))
  /\ creating' = creating \ {c}
  /\ createLast' = [op |-> "create resolved", name |-> c.name,
                    config |-> c.config, layoutsBefore |-> layouts]
  /\ UNCHANGED createNext

\* layout.draw(shapeName, options) on layout i
LDraw(i, shapeName, options) ==
  \E r \in {draw(layouts[i], shapeName, options, layoutNext)} :
     /\ layouts' = [layouts EXCEPT ![i] = r.layout]
     /\ layoutNext' = layoutNext + 1
     /\ exportLast' = [op |-> "draw", threw |-> r.threw,
                       shape |-> shapeName, layoutsBefore |-> layouts]

\* layout.flush() on layout i
LFlush(i) ==
  /\ layouts' = [layouts EXCEPT ![i] = layoutFlush(layouts[i]).layout]
  /\ layoutNext' = layoutNext + 1
  /\ exportLast' = [op |-> "flush"]

\* canvas.export({format})
LExport(format) ==
  \E r \in {export(layouts, format)} :
     /\ layouts' = r.layouts
     /\ layoutNext' = layoutNext + 1
     /\ exportLast' = [op |-> "export", outcome |-> r.outcome,
                       image |-> r.image, pending |-> r.pending,
                       queuedBefore |-> [i \in 1..Len(layouts) |->
                                           Len(layouts[i].drawQueue)]]

----------------------------------------------------------------------------
(* The retry-capable NeaSmart of a layout: its dirty regions, a plain list *)
(* without a spatial index, and reset(), which                             *)
(* NeaLayout.resetPerformanceMetrics calls.                                *)

\* mergeDirtyRegions from region i on: the first region that overlaps the
\* new one becomes their bounding box: [merged, regions]
RECURSIVE mergeDirtyRegions(_, _, _)
mergeDirtyRegions(regions, newRegion, i) ==
  IF i > Len(regions) THEN [merged |-> FALSE, regions |-> regions]
  ELSE IF regionsOverlap(regions[i], newRegion)
  THEN [merged |-> TRUE,
        regions |-> [regions EXCEPT ![i] = mergeRegions(@, newRegion)]]
  ELSE mergeDirtyRegions(regions, newRegion, i + 1)

\* markDirty of part_004: dirtyRegions after the call
retryMarkDirty(regions, region) ==
  LET r == mergeDirtyRegions(regions, region, 1)
      pushed == Append(regions, region)
  IN IF r.merged THEN r.regions
     ELSE IF Len(pushed) > maxDirtyRegions THEN Tail(pushed)
     ELSE pushed

\* the fields of a NeaSmart that reset() may touch, and failedOperations
SmartState ==
  [drawQueue |-> drawQueue, fillCache |-> fillCache,
   canvasPool |-> canvasPool, dirtyRegions |-> dirty.dirtyRegions,
   metrics |-> metrics, failedOperations |-> failedOperations,
   retryTimers |-> retryTimers]

\* reset(): the queue, the caches, the pool, the dirty regions and the
\* metrics are emptied; failedOperations and the timers are not mentioned
reset(s) ==
  [s EXCEPT !.drawQueue = <<>>,
            !.fillCache = NewFillCache,
            !.canvasPool = <<>>,
            !.dirtyRegions = <<>>,
            !.metrics = NewMetrics]

\* number of resetPerformanceMetrics calls made so far
ResetCalls == IF smLast.op = "reset" THEN smLast.calls ELSE 0

\* NeaLayout.draw(shapeName, options) with inputs that pass its validation:
\* smart.queue, then smart.markDirty with the dimensions of the shape
ZLayoutDraw(catalogue, maxCalls) ==
  /\ poolHeld # {}
  /\ opNext <= maxCalls
  /\ \E entry \in catalogue :
     \E r \in {retryQueue(drawQueue, metrics,
                          DrawOperation(opNext, entry.shape, entry.options))},
        dims \in {calculateShapeDimensions(entry.shape, entry.options)} :
        /\ drawQueue' = r.drawQueue
        /\ metrics' = r.metrics
        /\ dirty' = [dirty EXCEPT
                       !.dirtyRegions =
                         retryMarkDirty(@, Rect(entry.options.x,
                                                entry.options.y,
                                                dims.width, dims.height))]
  /\ opNext' = opNext + 1
  /\ UNCHANGED <<ctx, flushCalls, sinceFlush, smLast, rVars, fillCache,
                 canvasPool>>

\* NeaLayout.resetPerformanceMetrics(): this.smart.reset()
ZResetPerformanceMetrics ==
  \E r \in {reset(SmartState)} :
     /\ drawQueue' = r.drawQueue
     /\ fillCache' = r.fillCache
     /\ canvasPool' = r.canvasPool
     /\ dirty' = [dirty EXCEPT !.dirtyRegions = r.dirtyRegions]
     /\ metrics' = r.metrics
     /\ failedOperations' = r.failedOperations
     /\ retryTimers' = r.retryTimers
     /\ smLast' = [op |-> "reset", calls |-> ResetCalls + 1,
                   before |-> SmartState, after |-> r]
     /\ UNCHANGED <<ctx, opNext, flushCalls, sinceFlush, pendingOps,
                    requeueLog, failedLog>>

----------------------------------------------------------------------------
(* The initial state: every object as its constructor leaves it.           *)

NoCall == [op |-> "none"]

\* new QuadTree(0, 0, 4096, 4096)
QTInit ==
  /\ tree = QuadTree(0, 0, RootSize, RootSize, 0)
  /\ qtNext = 1
  /\ qtLive = {}
  /\ qtLast = NoCall
  /\ qtTally = [inserts |-> 0, removed |-> 0, removeCalls |-> 0,
                clears |-> 0]

\* no create call has been made
CInit ==
  /\ creating = {}
  /\ createNext = 1
  /\ createLast = NoCall

Init ==
  /\ QTInit /\ SMInit /\ DInit /\ PInit /\ RInit /\ HInit /\ LInit /\ CInit
  /\ EInit /\ KInit

----------------------------------------------------------------------------
(* SpecQT / SpecQTDrift: a QuadTree(0, 0, 4096, 4096) driven by insert and *)
(* remove calls.  Object ids are distinct (the call number).  The first    *)
(* SeedCount inserts put small objects into one level-5 cell, so that the  *)
(* nodes on the way down split; the inserts after them choose among        *)
(* FreeRects.  At most MaxFree free inserts and MaxRemoves removes are     *)
(* made.                                                                   *)

SeedCount == 10
MaxFree == 2
MaxRemoves == 2

SeedRect(i) == Rect(4 * i, 4, 2, 2)

FreeRects ==
  { Rect(60, 8, 2, 2),          \* the seeds' level-5 cell
    Rect(3000, 100, 50, 50),    \* top-right quadrant of the root
    Rect(2040, 100, 20, 20),    \* straddles the root's vertical midpoint
    Rect(100, 3000, 10, 10) }   \* bottom-left quadrant of the root

RectChoices(n) == IF n <= SeedCount THEN {SeedRect(n)} ELSE FreeRects

WholeBounds == Rect(0, 0, RootSize, RootSize)

\* insert(obj), obj being one of rects under a fresh id
QTInsertOf(rects) ==
  /\ qtNext <= SeedCount + MaxFree
  /\ \E r \in rects :
       LET obj == SpatialObject(qtNext, r)
       IN /\ tree' = insert(tree, obj)
          /\ qtLive' = qtLive \cup {obj}
          /\ qtLast' = [op |-> "insert", obj |-> obj]
  /\ qtNext' = qtNext + 1
  /\ qtTally' = [qtTally EXCEPT !.inserts = @ + 1]
  /\ UNCHANGED exceptQT

QTInsert == QTInsertOf(RectChoices(qtNext))

\* the tally after a remove call that returned found
Tallied(found) ==
  [qtTally EXCEPT !.removeCalls = @ + 1,
                  !.removed = IF found THEN @ + 1 ELSE @]

\* qtLive drops an object when remove is called on it, so the removes made
\* so far are the ids that are no longer live
RemovesMade == (qtNext - 1) - Cardinality(qtLive)

\* remove(obj) with obj as it was inserted
QTRemove ==
  /\ RemovesMade < MaxRemoves
  /\ \E obj \in qtLive :
       LET r == remove(tree, obj)
       IN /\ tree' = r.tree
          /\ qtLive' = qtLive \ {obj}
          /\ qtLast' = [op |-> "remove", obj |-> obj, found |-> r.found,
                        stored |-> obj, depthBefore |-> treeDepth(tree)]
          /\ qtTally' = Tallied(r.found)
  /\ UNCHANGED <<qtNext, exceptQT>>

\* remove(obj) with the id of a stored object and any geometry
QTRemoveDrift ==
  /\ RemovesMade < MaxRemoves
  /\ \E stored \in qtLive, r \in FreeRects \cup {SeedRect(1)} :
       LET obj == SpatialObject(stored.id, r)
           res == remove(tree, obj)
       IN /\ tree' = res.tree
          /\ qtLive' = qtLive \ {stored}
          /\ qtLast' = [op |-> "remove", obj |-> obj, found |-> res.found,
                        stored |-> stored, depthBefore |-> treeDepth(tree)]
          /\ qtTally' = Tallied(res.found)
  /\ UNCHANGED <<qtNext, exceptQT>>

\* the points queryPoint is asked about: corners, edges, interiors and near
\* misses of the seeds and of FreeRects
ProbePoints ==
  { [x |-> 4, y |-> 4], [x |-> 6, y |-> 6], [x |-> 5, y |-> 5],
    [x |-> 7, y |-> 5], [x |-> 42, y |-> 6], [x |-> 61, y |-> 9],
    [x |-> 62, y |-> 10], [x |-> 2040, y |-> 100], [x |-> 2048, y |-> 110],
    [x |-> 2060, y |-> 120], [x |-> 2061, y |-> 120],
    [x |-> 3050, y |-> 150], [x |-> 3025, y |-> 99],
    [x |-> 110, y |-> 3010], [x |-> 0, y |-> 0] }

NextQT == QTInsert \/ QTRemove

SpecQT == Init /\ [][NextQT]_vars

NextQTDrift == QTInsert \/ QTRemoveDrift

SpecQTDrift == Init /\ [][NextQTDrift]_vars

----------------------------------------------------------------------------
(* SpecQTLife: one QuadTree through inserts, removes of stored and of      *)
(* unknown objects, and up to MaxTreeClears clear calls.  The seeds come   *)
(* first as in SpecQT; the free rectangles include one that ends on the    *)
(* root's vertical midpoint and one that lies beyond the root bounds.      *)

MaxTreeClears == 1

LifeRects ==
  { Rect(60, 8, 2, 2),          \* the seeds' level-5 cell
    Rect(2046, 100, 2, 2),      \* ends on the root's vertical midpoint
    Rect(2040, 100, 20, 20),    \* straddles the root's vertical midpoint
    Rect(3000, 3000, 10, 10),   \* bottom-right quadrant of the root
    Rect(5000, 100, 10, 10) }   \* beyond the root bounds

LifeChoices(n) == IF n <= SeedCount THEN {SeedRect(n)} ELSE LifeRects

\* an object that was never inserted
UnknownObject == SpatialObject(0, Rect(60, 8, 2, 2))

QTLifeInsert == QTInsertOf(LifeChoices(qtNext))

\* the objects remove is called on: the first seed, the first free object
\* and an unknown one
RemoveChoices ==
  {obj \in qtLive : obj.id \in {1, SeedCount + 1}} \cup {UnknownObject}

\* remove(obj) of a stored object as it was inserted, or of an unknown one
QTLifeRemove ==
  /\ qtTally.removeCalls < MaxRemoves
  /\ \E obj \in RemoveChoices :
       LET r == remove(tree, obj)
       IN /\ tree' = r.tree
          /\ qtLive' = qtLive \ {obj}
          /\ qtLast' = [op |-> "remove", obj |-> obj, found |-> r.found,
                        stored |-> obj, depthBefore |-> treeDepth(tree)]
          /\ qtTally' = Tallied(r.found)
  /\ UNCHANGED <<qtNext, exceptQT>>

\* clear()
QTClear ==
  /\ qtTally.clears < MaxTreeClears
  /\ tree' = clear(tree)
  /\ qtLive' = {}
  /\ qtLast' = [op |-> "clear", depthBefore |-> treeDepth(tree)]
  /\ qtTally' = [qtTally EXCEPT !.inserts = 0, !.removed = 0,
                                !.clears = @ + 1]
  /\ UNCHANGED <<qtNext, exceptQT>>

NextQTLife == QTLifeInsert \/ QTLifeRemove \/ QTClear

SpecQTLife == Init /\ [][NextQTLife]_vars

----------------------------------------------------------------------------
(* SpecQueue: one NeaSmart fed with up to QMaxCalls queue calls of one     *)
(* plain rectangle, and QMaxFlushes explicit flushes at any point; a flush *)
(* that draws is made while at most QFlushLen operations are pending.      *)

QMaxCalls == 52
QMaxFlushes == 1
QFlushLen == 12

PlainRect == DrawConfig(0, 0, 3, UndefNum, "red", "black", UndefNum)

QCatalogue == { [shape |-> "rectangle", options |-> PlainRect] }

QQueue == SMQueue(QCatalogue, QMaxCalls) /\ UNCHANGED exceptSM
QFlushCtx ==
  /\ Len(drawQueue) <= QFlushLen
  /\ SMFlushWith(ctx, QMaxFlushes)
  /\ UNCHANGED exceptSM
QFlushNoCtx == SMFlushWith(NoContext, QMaxFlushes) /\ UNCHANGED exceptSM

NextQueue == QQueue \/ QFlushCtx \/ QFlushNoCtx

SpecQueue == Init /\ [][NextQueue]_vars

----------------------------------------------------------------------------
(* SpecAuto: one NeaSmart fed with up to AMaxCalls queue calls of one      *)
(* plain rectangle, as layout.draw makes them, and flushed with the        *)
(* layout's context, as layout.flush does, up to AMaxFlushes times at any  *)
(* queue length.                                                           *)

AMaxCalls == 51
AMaxFlushes == 2

AQueue == SMQueue(QCatalogue, AMaxCalls) /\ UNCHANGED exceptSM
AFlushCtx == SMFlushWith(ctx, AMaxFlushes) /\ UNCHANGED exceptSM

NextAuto == AQueue \/ AFlushCtx

SpecAuto == Init /\ [][NextAuto]_vars

----------------------------------------------------------------------------
(* SpecFlush: one NeaSmart fed with up to FMaxOps operations drawn from a  *)
(* catalogue of overlapping shapes, one of which makes its tool throw, and *)
(* FMaxFlushes explicit flushes.                                           *)

FMaxOps == 3
FMaxFlushes == 2

FCatalogue ==
  { [shape |-> "rectangle",
     options |-> DrawConfig(0, 0, 3, UndefNum, "red", "black", UndefNum)],
    [shape |-> "circle",
     options |-> DrawConfig(3, 0, UndefNum, 2, "red", "black", UndefNum)],
    [shape |-> "rectangle",
     options |-> DrawConfig(2, 0, 3, UndefNum, "red", "black", UndefNum)],
    [shape |-> "rectangle",
     options |-> DrawConfig(1, 0, 2, UndefNum, "blue", Undef, 50)],
    \* no width: Rectangle.draw throws 'Rectangle requires width'
    [shape |-> "rectangle",
     options |-> DrawConfig(1, 0, UndefNum, UndefNum, "red", "black",
                            UndefNum)] }

FQueue == SMQueue(FCatalogue, FMaxOps) /\ UNCHANGED exceptSM
FFlushCtx == SMFlushWith(ctx, FMaxFlushes) /\ UNCHANGED exceptSM
FFlushNoCtx == SMFlushWith(NoContext, FMaxFlushes) /\ UNCHANGED exceptSM

NextFlush == FQueue \/ FFlushCtx \/ FFlushNoCtx

SpecFlush == Init /\ [][NextFlush]_vars

----------------------------------------------------------------------------
(* SpecBatch: one NeaSmart fed with up to BatchSeed + BatchFree operations *)
(* that no tool throws on, and flushed at most BatchMaxFlushes times at    *)
(* any queue length.  The seeds interleave two paint states of rectangles  *)
(* and one of circles, at positions that the spatial sort reorders; the    *)
(* free operations after them are any of the catalogue.                    *)

BatchSeed == 46
BatchFree == 3
BatchMaxFlushes == 1

RedRect(x, y) == DrawConfig(x, y, 3, UndefNum, "red", "black", UndefNum)
BlueRect(x, y) == DrawConfig(x, y, 2, UndefNum, "blue", Undef, 50)
RedCircle(x, y) == DrawConfig(x, y, UndefNum, 2, "red", "black", UndefNum)

BatchSeedEntry(n) ==
  LET x == n % 3
      y == (n % 2) * 60
  IN IF n % 4 = 2 THEN [shape |-> "rectangle", options |-> BlueRect(x, y)]
     ELSE IF n % 8 = 3 THEN [shape |-> "circle", options |-> RedCircle(x, y)]
     ELSE [shape |-> "rectangle", options |-> RedRect(x, y)]

BatchCatalogue ==
  { [shape |-> "rectangle", options |-> RedRect(1, 0)],
    [shape |-> "rectangle", options |-> BlueRect(2, 60)],
    [shape |-> "circle", options |-> RedCircle(3, 0)] }

BatchChoices(n) ==
  IF n <= BatchSeed THEN {BatchSeedEntry(n)} ELSE BatchCatalogue

BatchQueue ==
  /\ SMQueue(BatchChoices(opNext), BatchSeed + BatchFree)
  /\ UNCHANGED exceptSM

BatchFlushCtx == SMFlushWith(ctx, BatchMaxFlushes) /\ UNCHANGED exceptSM

NextBatch == BatchQueue \/ BatchFlushCtx

SpecBatch == Init /\ [][NextBatch]_vars

----------------------------------------------------------------------------
(* SpecDirty: the dirty regions of one NeaSmart.  The first DirtySeed      *)
(* markDirty calls mark disjoint rectangles, so that the list fills up;    *)
(* the DMaxFree calls after them choose among DirtyFreeRects.  Once the    *)
(* seeds are marked the list is cleared at most DMaxClears times and the   *)
(* index resized at any point.                                             *)

DirtySeed == 20
DMaxFree == 3
DMaxClears == 1

DirtySeedRect(i) == Rect(200 * (i - 1), 0, 10, 10)

DirtyFreeRects ==
  { Rect(5, 5, 10, 10),         \* overlaps the first seed
    Rect(205, 0, 200, 5),       \* overlaps the second and the third seed
    Rect(3000, 3000, 50, 50),   \* overlaps no seed
    Rect(2040, 2040, 20, 20),   \* straddles both midpoints of the index
    Rect(3010, 3010, 10, 10) }  \* inside the third rectangle

DirtyChoices(n) == IF n <= DirtySeed THEN {DirtySeedRect(n)} ELSE DirtyFreeRects

DirtySizes == {1024, RootSize}

DMark ==
  /\ dirtyNext <= DirtySeed + DMaxFree
  /\ \E region \in DirtyChoices(dirtyNext) : DMarkDirty(region)
  /\ UNCHANGED <<metrics, exceptD>>

DClear ==
  /\ dirtyNext > DirtySeed
  /\ metrics.dirtyRegionRedraws < DMaxClears
  /\ DClearDirtyRegions
  /\ UNCHANGED exceptD

DResize ==
  /\ dirtyNext > DirtySeed
  /\ \E side \in DirtySizes : DUpdateSpatialBounds(side)
  /\ UNCHANGED <<metrics, exceptD>>

NextDirty == DMark \/ DClear \/ DResize

SpecDirty == Init /\ [][NextDirty]_vars

----------------------------------------------------------------------------
(* SpecDirtyFar: the dirty regions of one NeaSmart whose layout is wider   *)
(* than the 4096 of the spatial index.  The first DirtySeed calls mark     *)
(* disjoint rectangles from right to left, the first of them beyond the    *)
(* root bounds of the index; up to DMaxFree free calls follow.             *)

FarSeedRect(i) == Rect(5000 - 200 * (i - 1), 0, 10, 10)

FarFreeRects ==
  { Rect(5005, 5, 10, 10),      \* overlaps the first seed, beyond the index
    Rect(1205, 5, 10, 10),      \* overlaps the twentieth seed
    Rect(3000, 3000, 50, 50),   \* overlaps no seed
    Rect(6000, 3000, 50, 50),   \* overlaps no seed, beyond the index
    Rect(4605, 5, 200, 10),     \* overlaps two seeds, beyond the index
    Rect(3010, 3010, 10, 10) }  \* inside the third rectangle

FarChoices(n) == IF n <= DirtySeed THEN {FarSeedRect(n)} ELSE FarFreeRects

DFarMark ==
  /\ dirtyNext <= DirtySeed + DMaxFree
  /\ \E region \in FarChoices(dirtyNext) : DMarkDirty(region)
  /\ UNCHANGED <<metrics, exceptD>>

NextDirtyFar == DFarMark

SpecDirtyFar == Init /\ [][NextDirtyFar]_vars

----------------------------------------------------------------------------
(* SpecPool: the canvas pool of one NeaSmart.  The first PoolSeed calls    *)
(* get canvases of one size and the next PoolSeed calls return them in the *)
(* order they were created; the PMaxFree calls after them are getCanvas    *)
(* with a size of PoolSizes or returnCanvas of any canvas held.            *)

PoolSeed == 9
PMaxFree == 5
PoolSizes == {1, 2}

GetSizes ==
  IF now < PoolSeed THEN {1}
  ELSE IF now < 2 * PoolSeed THEN {}
  ELSE PoolSizes

ReturnChoices ==
  IF now < PoolSeed THEN {}
  ELSE IF now < 2 * PoolSeed
  THEN {h \in poolHeld : \A g \in poolHeld : h.canvas <= g.canvas}
  ELSE poolHeld

\* the canvas package is there while the pool is being filled
HostChoices == IF now < 2 * PoolSeed THEN {TRUE} ELSE BOOLEAN

PGet ==
  /\ now < 2 * PoolSeed + PMaxFree
  /\ \E side \in GetSizes, installed \in HostChoices :
       PGetCanvas(side, installed)
  /\ UNCHANGED exceptP

PReturn ==
  /\ now < 2 * PoolSeed + PMaxFree
  /\ \E held \in ReturnChoices : PReturnCanvas(held)
  /\ UNCHANGED exceptP

NextPool == PGet \/ PReturn

SpecPool == Init /\ [][NextPool]_vars

----------------------------------------------------------------------------
(* SpecPoolAgain: one canvas pool and up to UMaxCalls calls, getCanvas    *)
(* with a size of PoolSizes, returnCanvas of a canvas held, or             *)
(* returnCanvas of a canvas that has been returned already.                *)

UMaxCalls == 6

UGet ==
  /\ now < UMaxCalls
  /\ \E side \in PoolSizes : PGetCanvas(side, TRUE)
  /\ UNCHANGED exceptP

UReturn ==
  /\ now < UMaxCalls
  /\ \E held \in poolHeld : PReturnCanvas(held)
  /\ UNCHANGED exceptP

UReturnAgain ==
  /\ now < UMaxCalls
  /\ \E k \in 1..Len(canvasPool) : PReturnCanvasAgain(canvasPool[k])
  /\ UNCHANGED exceptP

NextPoolAgain == UGet \/ UReturn \/ UReturnAgain

SpecPoolAgain == Init /\ [][NextPoolAgain]_vars

----------------------------------------------------------------------------
(* SpecCache: the fill-style cache of one NeaSmart.  The first CacheSeed   *)
(* lookups are of gradients never looked up before; the CacheFree lookups  *)
(* after them are of a new gradient, of the oldest or the newest one       *)
(* looked up, of a colour string or of an object without a gradient.       *)
(* cleanup() is called up to CacheMaxCleanups times, at any moment.        *)

CacheSeed == 100
CacheFree == 3
CacheMaxCleanups == 2

FillChoices ==
  IF cacheCalls.lookups < CacheSeed
  THEN {GradientFill(cacheCalls.lookups + 1)}
  ELSE {GradientFill(cacheCalls.lookups + 1), GradientFill(1),
        GradientFill(cacheCalls.lookups), StringFill("red"),
        GradientFill(NoGradient)}

KLookup ==
  /\ cacheCalls.lookups < CacheSeed + CacheFree
  /\ \E fillStyle \in FillChoices : KGetCachedFillStyle(fillStyle)
  /\ UNCHANGED exceptK

KClean ==
  /\ cacheCalls.cleanups < CacheMaxCleanups
  /\ KCleanup
  /\ UNCHANGED exceptK

NextCache == KLookup \/ KClean

SpecCache == Init /\ [][NextCache]_vars

----------------------------------------------------------------------------
(* SpecRetry: one retry-capable NeaSmart fed with up to RMaxOps            *)
(* operations, one kind of which makes its tool throw on every execution,  *)
(* and flushed up to RMaxFlushes times.                                    *)

RMaxOps == 2
RMaxFlushes == 5

RCatalogue ==
  { [shape |-> "rectangle", options |-> PlainRect],
    \* no width: Rectangle.draw throws 'Rectangle requires width'
    [shape |-> "rectangle",
     options |-> DrawConfig(1, 0, UndefNum, UndefNum, "red", "black",
                            UndefNum)] }

RQueue == RQueueOp(RCatalogue, RMaxOps) /\ UNCHANGED exceptR
RFlushCtx == RFlushWith(TRUE, RMaxFlushes) /\ UNCHANGED exceptR
RFlushNoCtx == RFlushWith(FALSE, RMaxFlushes) /\ UNCHANGED exceptR
RRun == RRunTool /\ UNCHANGED exceptR
RTimer == RTimerFires /\ UNCHANGED exceptR

NextRetry == RQueue \/ RFlushCtx \/ RFlushNoCtx \/ RRun \/ RTimer

SpecRetry == Init /\ [][NextRetry]_vars

----------------------------------------------------------------------------
(* SpecReset: one layout and its retry-capable NeaSmart.  The layout gets  *)
(* its canvas from the pool, draws up to ZMaxOps shapes, one kind of which *)
(* makes its tool throw, is flushed up to ZMaxFlushes times, may hand its  *)
(* canvas back, and resetPerformanceMetrics is called up to ZMaxResets     *)
(* times at any point.                                                     *)

ZMaxOps == 2
ZMaxFlushes == 2
ZMaxResets == 1
ZSide == 1

\* a rectangle that lies apart from those of RCatalogue
ZCatalogue ==
  RCatalogue
    \cup { [shape |-> "rectangle",
            options |-> DrawConfig(4, 0, 1, UndefNum, "red", "black",
                                   UndefNum)] }

\* initCanvas: the layout takes its canvas from the pool of its NeaSmart
ZInitCanvas ==
  /\ poolNext = 1
  /\ PGetCanvas(ZSide, TRUE)
  /\ UNCHANGED exceptP

ZDraw ==
  /\ ZLayoutDraw(ZCatalogue, ZMaxOps)
  /\ UNCHANGED <<qtVars, dirtyNext, dirtyCover, dirtyEvicted, dirtyLast,
                 poolHeld, poolNext, now, poolLast, hVars, lVars, cVars,
                 eVars, cacheCalls, cacheLast>>

\* NeaLayout.flush(): smart.flush(ctx) while the layout has its context
ZFlush ==
  /\ poolHeld # {}
  /\ RFlushWith(TRUE, ZMaxFlushes)
  /\ UNCHANGED exceptR

ZRun == RRunTool /\ UNCHANGED exceptR

ZTimer == RTimerFires /\ UNCHANGED exceptR

\* returnCanvasToPool
ZReturn ==
  /\ \E held \in poolHeld : PReturnCanvas(held)
  /\ UNCHANGED exceptP

ZReset ==
  /\ ResetCalls < ZMaxResets
  /\ ZResetPerformanceMetrics
  /\ UNCHANGED <<qtVars, dirtyNext, dirtyCover, dirtyEvicted, dirtyLast,
                 poolHeld, poolNext, now, poolLast, hVars, lVars, cVars,
                 eVars, cacheCalls, cacheLast>>

NextReset ==
  ZInitCanvas \/ ZDraw \/ ZFlush \/ ZRun \/ ZTimer \/ ZReturn \/ ZReset

SpecReset == Init /\ [][NextReset]_vars

----------------------------------------------------------------------------
(* SpecHit: one NeaInteractive with up to HMaxCalls set and updateBounds   *)
(* calls, and findShapeAt at any point.                                    *)

HMaxCalls == 3

HShapeIds == {"a", "b"}

HConfigs ==
  { InteractiveConfig(10, 10, 20, UndefNum, TRUE),
    InteractiveConfig(5000, 10, 20, UndefNum, TRUE),
    InteractiveConfig(100, 100, UndefNum, 10, TRUE),
    InteractiveConfig(10, 10, 20, UndefNum, FALSE) }

HPoints ==
  { <<9, 10>>, <<10, 10>>, <<30, 30>>, <<20, 20>>, <<31, 30>>,
    <<5005, 15>>, <<110, 110>> }

HSizes == {8192}

HRegister ==
  /\ hitCalls < HMaxCalls
  /\ \E shapeId \in HShapeIds, options \in HConfigs :
       HSet(shapeId, options, "main")
  /\ UNCHANGED exceptH

HResolve ==
  /\ \E pt \in HPoints : HFindShapeAt(pt[1], pt[2])
  /\ UNCHANGED exceptH

HResize ==
  /\ hitCalls < HMaxCalls
  /\ \E side \in HSizes : HUpdateBounds(side)
  /\ UNCHANGED exceptH

NextHit == HRegister \/ HResolve \/ HResize

SpecHit == Init /\ [][NextHit]_vars

----------------------------------------------------------------------------
(* SpecBounds: one NeaInteractive with up to BMaxCalls setLayoutConfig     *)
(* and set calls, the shapes being boxes, circles and ellipses drawn on    *)
(* layouts placed at and away from the canvas origin.                      *)

BMaxCalls == 3

BLayoutNames == {"main", "side"}

BLayoutConfigs == { Rect(0, 0, 200, 200), Rect(50, 20, 200, 200) }

\* a clickable box with its own height, and a clickable ellipse
BoxConfig(x, y, width, height) ==
  [InteractiveConfig(x, y, width, UndefNum, TRUE) EXCEPT !.height = height]

EllipseConfig(x, y, radiusX, radiusY) ==
  [InteractiveConfig(x, y, UndefNum, UndefNum, TRUE)
     EXCEPT !.height = UndefNum, !.radiusX = radiusX, !.radiusY = radiusY]

BConfigs ==
  { BoxConfig(10, 10, 20, 30),
    BoxConfig(10, 10, UndefNum, UndefNum),
    InteractiveConfig(40, 40, UndefNum, 10, TRUE),
    EllipseConfig(40, 40, 10, 5),
    InteractiveConfig(10, 10, 20, UndefNum, FALSE) }

BPoints == { <<15, 15>>, <<65, 35>>, <<45, 45>> }

BLayout ==
  /\ hitCalls < BMaxCalls
  /\ \E layoutName \in BLayoutNames, config \in BLayoutConfigs :
       HSetLayoutConfig(layoutName, config)
  /\ UNCHANGED exceptH

BRegister ==
  /\ hitCalls < BMaxCalls
  /\ \E shapeId \in HShapeIds, options \in BConfigs,
        layoutName \in BLayoutNames :
       HSet(shapeId, options, layoutName)
  /\ UNCHANGED exceptH

BResolve ==
  /\ \E pt \in BPoints : HFindShapeAt(pt[1], pt[2])
  /\ UNCHANGED exceptH

NextBounds == BLayout \/ BRegister \/ BResolve

SpecBounds == Init /\ [][NextBounds]_vars

----------------------------------------------------------------------------
(* SpecIndex: one NeaInteractive on which IndexSeed shapes with distinct   *)
(* ids are registered next to each other, so that the nodes of the index   *)
(* split down to the last level; the IndexFree calls after them register   *)
(* one of IndexIds (two of the seeds and a new id) with one of             *)
(* IndexConfigs, or resize the index to one of IndexSizes.                 *)

IndexSeed == 11
IndexFree == 3

IndexSeedIds ==
  <<"s1", "s2", "s3", "s4", "s5", "s6", "s7", "s8", "s9", "s10", "s11",
    "s12", "s13">>

IndexSeedConfig(n) ==
  InteractiveConfig(60 + (n % 4), 8 + (n % 3), 2, UndefNum, TRUE)

IndexIds == {"s1", IndexSeedIds[IndexSeed], "t"}

IndexConfigs ==
  { InteractiveConfig(3000, 3000, 10, UndefNum, TRUE),
    \* across the vertical midpoint line of the root
    InteractiveConfig(2040, 100, 20, UndefNum, TRUE),
    \* beyond the root bounds
    InteractiveConfig(5000, 10, 20, UndefNum, TRUE),
    \* among the seeds
    InteractiveConfig(61, 9, UndefNum, 1, TRUE),
    \* without a handler: set does nothing
    InteractiveConfig(10, 10, 20, UndefNum, FALSE) }

IndexSizes == {8192, 100}

IRegister ==
  /\ hitCalls < IndexSeed + IndexFree
  /\ IF hitCalls < IndexSeed
     THEN HSet(IndexSeedIds[hitCalls + 1], IndexSeedConfig(hitCalls + 1),
               "main")
     ELSE \E shapeId \in IndexIds, options \in IndexConfigs :
            HSet(shapeId, options, "main")
  /\ UNCHANGED exceptH

IResize ==
  /\ hitCalls >= IndexSeed
  /\ hitCalls < IndexSeed + IndexFree
  /\ \E side \in IndexSizes : HUpdateBounds(side)
  /\ UNCHANGED exceptH

NextIndex == IRegister \/ IResize

SpecIndex == Init /\ [][NextIndex]_vars

----------------------------------------------------------------------------
(* SpecExport: one NeaCanvas on which layouts are created, drawn on,       *)
(* flushed and exported, with up to LMaxCalls draw, flush and export       *)
(* calls.                                                                  *)

LMaxCalls == 4

LNames == {"main", "side"}

LConfigs == {LayoutConfig(0), LayoutConfig(SurfaceWidth), LayoutConfig(3)}

LCatalogue ==
  { [shape |-> "rectangle", options |-> PlainRect],
    \* reaches beyond the right edge of the layout: SHAPE_OUT_OF_BOUNDS
    [shape |-> "rectangle",
     options |-> DrawConfig(SurfaceWidth - 2, 0, 3, UndefNum, "red", "black",
                            UndefNum)] }

LFormats == {"png", "gif"}

LNew ==
  /\ \E name \in LNames, config \in LConfigs : LCreate(name, config)
  /\ UNCHANGED exceptL

LDrawOn ==
  /\ layoutNext <= LMaxCalls
  /\ \E i \in 1..Len(layouts), entry \in LCatalogue :
       LDraw(i, entry.shape, entry.options)
  /\ UNCHANGED exceptL

LFlushOn ==
  /\ layoutNext <= LMaxCalls
  /\ \E i \in 1..Len(layouts) : LFlush(i)
  /\ UNCHANGED exceptL

LExportAs ==
  /\ layoutNext <= LMaxCalls
  /\ \E format \in LFormats : LExport(format)
  /\ UNCHANGED exceptL

NextExport == LNew \/ LDrawOn \/ LFlushOn \/ LExportAs

SpecExport == Init /\ [][NextExport]_vars

----------------------------------------------------------------------------
(* SpecCreate: one NeaCanvas, CanvasWidth wide and SurfaceWidth high, on   *)
(* which up to CMaxCalls create calls are made; a call that passed its     *)
(* checks stays suspended until NeaLayout.create resolves, and the         *)
(* suspended calls resolve in any order.                                   *)

CMaxCalls == 3

CNames == {"main", "side", "top"}

CConfigs ==
  { LayoutConfig(0), LayoutConfig(SurfaceWidth), LayoutConfig(3),
    LayoutConfig(SurfaceWidth + 1) }    \* reaches beyond the canvas

CCall ==
  /\ createNext <= CMaxCalls
  /\ \E name \in CNames, config \in CConfigs : CCreateCall(name, config)
  /\ UNCHANGED exceptC

CResume ==
  /\ \E c \in creating : CCreateResume(c)
  /\ UNCHANGED exceptC

NextCreate == CCall \/ CResume

SpecCreate == Init /\ [][NextCreate]_vars

----------------------------------------------------------------------------
(* SpecHover and SpecTouch: one NeaInteractive on a touch device.  The     *)
(* shapes of EShapes are registered, the canvas element is set and the     *)
(* listeners are enabled; then up to EMaxEvents mouse events (SpecHover)   *)
(* or up to TMaxEvents touch events of up to MaxFingers touches            *)
(* (SpecTouch) arrive, time passes in up to EMaxWaits or TMaxWaits steps,  *)
(* and the host runs the timers that are due.                              *)

EMaxEvents == 4
EMaxWaits == 4
MaxFingers == 2

EShapes ==
  << [shapeId |-> "a",
      options |-> HandlerConfig(10, 10, 40,
                                {"onHover", "onTap", "onDoubleTap", "onHold",
                                 "onTouchMove"})],
     [shapeId |-> "b",
      options |-> HandlerConfig(100, 10, 40,
                                {"onHover", "onTap", "onTouchStart",
                                 "onTouchEnd"})] >>

\* the canvas element: its bounding rectangle starts at client (2, 2) and
\* has the size of the canvas
ECanvas ==
  [present |-> TRUE, left |-> 2, top |-> 2, width |-> 200, height |-> 200,
   rectWidth |-> 200, rectHeight |-> 200]

\* client points: two over shape a, one over shape b, one over no shape
EMousePoints ==
  { NativePoint(0, 17, 17), NativePoint(0, 22, 17), NativePoint(0, 107, 17),
    NativePoint(0, 72, 72) }

\* client points: over shape a, 5 to the right of it, 15 below it, over
\* shape b and over no shape
ETouchPoints ==
  { NativePoint(0, 17, 17), NativePoint(0, 22, 17), NativePoint(0, 17, 32),
    NativePoint(0, 107, 17), NativePoint(0, 72, 72) }

HoverSteps == {8, 16}

\* the time to the next timer coming due
NextDue ==
  {d \in {t.due - clock : t \in hostTimers} :
     d > 0 /\ \A t \in hostTimers : t.due - clock >= d}

ERegister ==
  /\ Len(interactive.registeredShapes) < Len(EShapes)
  /\ \E entry \in {EShapes[Len(interactive.registeredShapes) + 1]} :
       ESet(entry.shapeId, entry.options)
  /\ UNCHANGED exceptE

EAttach ==
  /\ Len(interactive.registeredShapes) = Len(EShapes)
  /\ ~ pointer.canvasElement.present
  /\ ESetCanvasElement(ECanvas)
  /\ UNCHANGED exceptE

ETouchSupport ==
  /\ pointer.canvasElement.present
  /\ ~ pointer.touchEnabled
  /\ EEnableTouchSupport
  /\ UNCHANGED exceptE

EListen ==
  /\ pointer.canvasElement.present
  /\ ~ pointer.enabled
  /\ EEnable
  /\ UNCHANGED exceptE

EMove ==
  /\ pointer.enabled
  /\ eventCount < EMaxEvents
  /\ \E event \in EMousePoints : EMouseMove(event)
  /\ UNCHANGED exceptE

ETimeout ==
  /\ ERunTimer
  /\ UNCHANGED exceptE

EWaitHover ==
  /\ pointer.enabled
  /\ waitCount < EMaxWaits
  /\ \E d \in HoverSteps :
       EAdvance(d)
  /\ UNCHANGED exceptE

NextHover == ERegister \/ EAttach \/ EListen \/ EMove \/ ETimeout \/ EWaitHover

SpecHover == Init /\ [][NextHover]_vars

\* client points: over shape a, 5 to the right of it, and over no shape
EHoldPoints ==
  { NativePoint(0, 17, 17), NativePoint(0, 22, 17), NativePoint(0, 72, 72) }

TMaxEvents == 5
TMaxWaits == 3

EStart ==
  /\ pointer.touchListeners
  /\ eventCount < TMaxEvents
  /\ Len(fingers) < MaxFingers
  /\ \E pt \in EHoldPoints : ETouchStart(pt)
  /\ UNCHANGED exceptE

EDrag ==
  /\ pointer.touchListeners
  /\ eventCount < TMaxEvents
  /\ \E k \in 1..Len(fingers), pt \in EHoldPoints : ETouchMove(k, pt)
  /\ UNCHANGED exceptE

ELift ==
  /\ pointer.touchListeners
  /\ eventCount < TMaxEvents
  /\ \E k \in 1..Len(fingers) : ETouchEnd(k)
  /\ UNCHANGED exceptE

EWaitTouch ==
  /\ pointer.touchListeners
  /\ waitCount < TMaxWaits
  /\ \E d \in {8} \cup NextDue : EAdvance(d)
  /\ UNCHANGED exceptE

NextTouch ==
  \/ ERegister \/ EAttach \/ ETouchSupport \/ EListen
  \/ EStart \/ EDrag \/ ELift \/ ETimeout \/ EWaitTouch

SpecTouch == Init /\ [][NextTouch]_vars

(* SpecTap: as SpecTouch, with one finger that is put down and lifted up   *)
(* to MaxTaps times at the points of ETouchPoints, time passing in up to   *)
(* MaxTapWaits steps: between taps, or with the finger down until the     *)
(* hold timer is due.                                                      *)

MaxTaps == 3
MaxTapWaits == 3

TapSteps == {8, 292}

ETapDown ==
  /\ pointer.touchListeners
  /\ fingers = <<>>
  /\ touchNext < MaxTaps
  /\ \E pt \in ETouchPoints : ETouchStart(pt)
  /\ UNCHANGED exceptE

ETapUp ==
  /\ pointer.touchListeners
  /\ fingers # <<>>
  /\ ETouchEnd(1)
  /\ UNCHANGED exceptE

EWaitTap ==
  /\ pointer.touchListeners
  /\ waitCount < MaxTapWaits
  /\ \E d \in IF fingers = <<>> THEN TapSteps ELSE NextDue : EAdvance(d)
  /\ UNCHANGED exceptE

NextTap ==
  \/ ERegister \/ EAttach \/ ETouchSupport \/ EListen
  \/ ETapDown \/ ETapUp \/ ETimeout \/ EWaitTap

SpecTap == Init /\ [][NextTap]_vars

----------------------------------------------------------------------------
(* SpecUnknownTool: shapes that are and that are not in the tool registry, *)
(* queued on a NeaSmart used on its own (up to QMaxCalls accepted calls),  *)
(* or drawn on the layouts of a canvas (up to LMaxCalls draw calls).       *)

UnknownShape == "blob"

UCatalogue ==
  { [shape |-> "rectangle", options |-> PlainRect],
    [shape |-> UnknownShape, options |-> PlainRect] }

UQueue ==
  /\ layouts = <<>>
  /\ SMQueue(UCatalogue, QMaxCalls)
  /\ UNCHANGED exceptSM

UNew ==
  /\ smLast.op = "none"
  /\ LNew

UDrawOn ==
  /\ layoutNext <= LMaxCalls
  /\ \E i \in 1..Len(layouts), entry \in UCatalogue :
       LDraw(i, entry.shape, entry.options)
  /\ UNCHANGED exceptL

NextUnknownTool == UQueue \/ UNew \/ UDrawOn

SpecUnknownTool == Init /\ [][NextUnknownTool]_vars

----------------------------------------------------------------------------
(* Claims: NeaSmart batcher                                                *)

\* C12: queue called with a shape that is not in the tool registry throws
\* and is a no-op: the queue and the operationsBatched metric are as before
\* the call (so no automatic flush happened), and a layout whose draw failed
\* this way has its queue, metrics, dirty regions and shapes as before; a
\* shape that is not registered is never accepted.
C12_UnknownToolIsNoOp ==
  /\ smLast.op = "queue threw" =>
       /\ drawQueue = smLast.queueBefore
       /\ metrics = smLast.metricsBefore
  /\ smLast.op = "queue" => ToolRegistryHas(smLast.operation.shape)
  /\ (exportLast.op = "draw" /\ ~ ToolRegistryHas(exportLast.shape)) =>
       /\ exportLast.threw
       /\ layouts = exportLast.layoutsBefore
  /\ \A i \in 1..Len(layouts) :
       /\ \A k \in 1..Len(layouts[i].shapes) :
            ToolRegistryHas(layouts[i].shapes[k].type)
       /\ \A k \in 1..Len(layouts[i].drawQueue) :
            ToolRegistryHas(layouts[i].drawQueue[k].shape)

\* C12 witness: an unregistered shape was queued while the queue held one
\* operation less than maxQueueSize.
C12_Witness ==
  /\ smLast.op = "queue threw"
  /\ ~ ToolRegistryHas(smLast.shape)
  /\ Len(smLast.queueBefore) = maxQueueSize - 1

\* C1: queue auto-flushes once the queue reaches maxQueueSize (50): after
\* every call to queue the queue holds fewer than 50 operations; 50 queue
\* calls with no explicit flush in between leave it empty and 51 leave
\* exactly 1 operation queued.
C1_AutoFlushAtMax ==
  /\ Len(drawQueue) < maxQueueSize
  /\ (sinceFlush = maxQueueSize /\ smLast.op = "queue") => drawQueue = <<>>
  /\ (sinceFlush = maxQueueSize + 1 /\ smLast.op = "queue") =>
       /\ Len(drawQueue) = 1
       /\ drawQueue[1] = smLast.operation

\* C1 witness: 51 operations were queued since the last explicit flush.
C1_Witness ==
  /\ smLast.op = "queue"
  /\ sinceFlush = maxQueueSize + 1
  /\ metrics.operationsBatched > maxQueueSize + 1

\* the operations of a queue have one paint state: the same state key, each
\* stating its fill and stroke itself and none changing opacity
NoPaintStateConflict(q) ==
  \A i, j \in 1..Len(q) :
    /\ getStateKey(q[i].options) = getStateKey(q[j].options)
    /\ q[i].options.opacity = UndefNum

\* C5: batch replay order: for every queue of operations sharing no
\* paint-state conflicts, the surface after flush(ctx) is identical to the
\* surface produced by executing the operations one by one in queue order.
C5_BatchReplayEqualsFifo ==
  ( /\ smLast.op = "flush"
    /\ smLast.hadContext
    /\ ~ smLast.threw
    /\ NoPaintStateConflict(smLast.queueBefore) ) =>
      ctx.pixels = executeFifo(smLast.ctxBefore, smLast.queueBefore).pixels

\* no operation id occurs twice in the log of executed operations
ExecutedOnce == \A i, j \in 1..Len(ctx.log) : ctx.log[i] = ctx.log[j] => i = j

\* C7: flush clears the queue unconditionally: after any call to flush, with
\* or without a context, returning normally or raising OperationFailed, the
\* queue is empty, and no operation is executed again by a later flush.
C7_FlushClearsQueue ==
  /\ smLast.op = "flush" => drawQueue = <<>>
  /\ ExecutedOnce

----------------------------------------------------------------------------
(* Claims: dirty regions, canvas pool                                      *)

\* r lies inside region
Covers(region, r) ==
  /\ region.x <= r.x
  /\ region.y <= r.y
  /\ r.x + r.width <= region.x + region.width
  /\ r.y + r.height <= region.y + region.height

\* C4: dirty-region soundness: every rectangle passed to markDirty since the
\* last clearDirtyRegions, except those whose region was evicted under the
\* maxDirtyRegions cap, lies inside the region of getDirtyRegions that
\* stands for it, so the union of the regions covers the union of the
\* rectangles; merging never drops a part of a marked rectangle.
C4_DirtyRegionsCoverMarks ==
  /\ Len(dirtyCover) = Len(getDirtyRegions(dirty))
  /\ \A i \in 1..Len(dirtyCover) :
       \A r \in dirtyCover[i] : Covers(getDirtyRegions(dirty)[i], r)

\* C4 witness: a region was evicted under the cap and the last markDirty
\* merged its rectangle into a region that stands for several rectangles.
C4_Witness ==
  /\ dirtyLast.op = "markDirty"
  /\ dirtyLast.merged
  /\ dirtyEvicted # {}
  /\ Cardinality(dirtyCover[dirtyLast.index]) >= 2

\* the tracked regions that overlap or touch the rectangle
Touching(regions, r) == {i \in 1..Len(regions) : regionsOverlap(regions[i], r)}

\* C13: for every rectangle passed to markDirty, wherever it lies relative
\* to the root bounds of the spatial index: if it overlaps or touches a
\* tracked region, exactly one such region is replaced by the bounding box
\* of itself and the rectangle and the number of regions does not grow; if
\* it overlaps none, the rectangle is appended as a region (the oldest
\* region leaving when the cap is exceeded).
C13_MarkDirtyMergesOrAppends ==
  dirtyLast.op = "markDirty" =>
    LET before == dirtyLast.before.dirtyRegions
        after == dirty.dirtyRegions
        r == dirtyLast.region
    IN IF Touching(before, r) # {}
       THEN \E i \in Touching(before, r) :
              after = [before EXCEPT ![i] = mergeRegions(before[i], r)]
       ELSE after = IF Len(before) >= maxDirtyRegions
                    THEN Tail(Append(before, r)) ELSE Append(before, r)

\* C14: after every markDirty call at most maxDirtyRegions (20) regions are
\* tracked; when appending a region makes the count exceed 20, the oldest
\* region (index 0) is dropped from the list and its entry is removed from
\* the spatial index, which holds as many entries as before the call.
C14_CapEvictsOldestFromBoth ==
  /\ Len(dirty.dirtyRegions) <= maxDirtyRegions
  /\ (dirtyLast.op = "markDirty" /\ dirtyLast.evicted) =>
       /\ dirty.dirtyRegions =
            Tail(Append(dirtyLast.before.dirtyRegions, dirtyLast.region))
       /\ size(dirty.spatialDirtyIndex) =
            size(dirtyLast.before.spatialDirtyIndex)

\* C10: pool capacity: the pool never holds more than maxPoolSize (10)
\* canvases; returnCanvas on a full pool evicts the entry at index 0, the
\* one inserted earliest, and appends the returned canvas.
C10_PoolCapacity ==
  /\ Len(canvasPool) <= maxPoolSize
  /\ (poolLast.op = "returnCanvas"
        /\ Len(poolLast.poolBefore) = maxPoolSize) =>
       /\ canvasPool = Append(Tail(poolLast.poolBefore), poolLast.entry)
       /\ \A i \in 2..Len(poolLast.poolBefore) :
            poolLast.poolBefore[1].lastUsed < poolLast.poolBefore[i].lastUsed

\* C11: when getCanvas misses the pool and the host cannot create a canvas,
\* the call throws and is a no-op on the state: the pool and every metric
\* counter, the pool hit and miss counts included, are as before the call.
C11_FailedGetCanvasIsNoOp ==
  (poolLast.op = "getCanvas" /\ poolLast.threw) =>
    /\ canvasPool = poolLast.poolBefore
    /\ metrics = poolLast.metricsBefore

\* C10 witness: returnCanvas was called on a full pool.
C10_Witness ==
  /\ poolLast.op = "returnCanvas"
  /\ Len(poolLast.poolBefore) = maxPoolSize
  /\ Len(canvasPool) = maxPoolSize

----------------------------------------------------------------------------
(* Claims: retry, interactive resolve, export                              *)

\* the number of times retryOperation re-inserted the operation
Requeues(id) == Cardinality({k \in 1..Len(requeueLog) : requeueLog[k] = id})

Containing(x, y) ==
  { interactive.registeredShapes[i].shapeId :
      i \in { j \in 1..Len(interactive.registeredShapes) :
                pointInBounds(x, y, interactive.registeredShapes[j].bounds) } }

\* C8: for every set of registered shapes and every point, findShapeAt
\* returns a registered shape whose inclusive bounds contain the point
\* whenever such a shape exists, and none otherwise.
C8_ResolveFindsContainingShape ==
  hitLast.op = "findShapeAt" =>
    IF Containing(hitLast.x, hitLast.y) # {}
    THEN /\ hitLast.result.found
         /\ hitLast.result.shapeId \in Containing(hitLast.x, hitLast.y)
    ELSE ~ hitLast.result.found

\* C9: layouts are flushed before export: when the layouts are composited
\* into the exported image, no layout has a queued operation left.
C9_AllLayoutsFlushedBeforeExport ==
  (exportLast.op = "export" /\ exportLast.outcome = "exported") =>
    \A i \in 1..Len(exportLast.pending) : exportLast.pending[i] = 0

----------------------------------------------------------------------------
(* Claims: QuadTree                                                        *)

\* C2: for every sequence of insert and remove calls with distinct ids,
\* objects inside the root bounds and each remove passed the object as it
\* was inserted, query over the whole root bounds returns exactly the
\* objects inserted and not yet removed: none missing, none stale, none
\* returned twice.
C2_QueryWholeExact ==
  LET res == query(tree, WholeBounds)
  IN /\ SeqToSet(res) = qtLive
     /\ Len(res) = Cardinality(qtLive)

\* C2 witness: an object stored in a child node of a tree of depth 5 has been
\* removed, and free inserts have been made.
C2_Witness ==
  /\ qtLast.op = "remove"
  /\ qtLast.found
  /\ qtLast.depthBefore = maxLevels
  /\ qtNext > SeedCount + 1
  /\ Len(tree.nodes) = 4
  /\ qtLive # {}

\* C3: remove matches by identifier, not by geometry: whenever an object
\* with obj.id is stored in the tree, remove(obj) returns true and removes
\* exactly that object, whatever geometry the passed obj carries.
C3_RemoveByIdAnyGeometry ==
  qtLast.op = "remove" =>
    /\ qtLast.found
    /\ qtLast.stored \notin qtLive
    /\ SeqToSet(query(tree, WholeBounds)) = qtLive

\* P lies within R's inclusive bounds
pointWithin(R, P) ==
  /\ R.x <= P.x /\ P.x <= R.x + R.width
  /\ R.y <= P.y /\ P.y <= R.y + R.height

\* C15: for rectangles inserted inside the root bounds and every point P,
\* queryPoint(P) returns a stored rectangle R if and only if P lies within
\* R's inclusive bounds, whichever node of the tree stores R.
C15_QueryPointExact ==
  \A P \in ProbePoints :
    SeqToSet(queryPoint(tree, P.x, P.y)) = {R \in qtLive : pointWithin(R, P)}

\* C15 witness: in a tree split down to the deepest level, after a remove,
\* a point on the far corner of an object kept in a child node and a point
\* inside an object kept in the root are both answered with that object.
C15_Witness ==
  /\ treeDepth(tree) = maxLevels
  /\ RemovesMade > 0
  /\ \E R \in qtLive, P \in ProbePoints :
       /\ R \notin SeqToSet(tree.objects)
       /\ P.x = R.x + R.width /\ P.y = R.y + R.height
       /\ R \in SeqToSet(queryPoint(tree, P.x, P.y))
  /\ \E R \in SeqToSet(tree.objects), P \in ProbePoints :
       /\ pointWithin(R, P)
       /\ R \in SeqToSet(queryPoint(tree, P.x, P.y))

----------------------------------------------------------------------------
(* Claims: NeaCanvas.create                                                *)

\* C16: after any sequence of create calls, concurrent ones included whose
\* completions interleave, the layouts of the canvas have distinct names,
\* each lies inside the canvas bounds and no two overlap in area (sharing
\* an edge is no overlap); a rejected create adds no layout.
C16_LayoutsDisjointInsideDistinct ==
  /\ \A i, j \in 1..Len(layouts) :
       i # j => /\ layouts[i].name # layouts[j].name
                /\ ~ layoutsOverlap(layouts[i].config, layouts[j].config)
  /\ \A i \in 1..Len(layouts) : validLayoutBounds(layouts[i].config)
  /\ createLast.op = "create rejected" => layouts = createLast.layoutsBefore

----------------------------------------------------------------------------
(* Claims: NeaInteractive hover and touch dispatch                         *)

\* C18: the hover handler fires only when the resolved shape changes between
\* polls: when two consecutive hover polls resolve to the same shape, or
\* both to no shape, the second poll invokes no handler.
C18_HoverFiresOnlyOnChange ==
  \A i \in 2..Len(hoverPolls) :
    hoverPolls[i].resolved = hoverPolls[i - 1].resolved
      => hoverPolls[i].fired = <<>>

\* C18 witness: a poll dispatched a hover event for a shape, and the next
\* poll resolved to the same shape and dispatched nothing.
C18_Witness ==
  /\ Len(hoverPolls) >= 2
  /\ hoverPolls[Len(hoverPolls)].resolved # ""
  /\ hoverPolls[Len(hoverPolls)].resolved
       = hoverPolls[Len(hoverPolls) - 1].resolved
  /\ hoverPolls[Len(hoverPolls) - 1].fired # <<>>
  /\ hoverPolls[Len(hoverPolls)].fired = <<>>

\* C19: at any time at most one hover timer is pending, a mouse-move event
\* arriving while a hover timer is pending schedules nothing, and two hover
\* resolutions are at least the 16 ms throttle interval apart.
C19_HoverThrottled ==
  /\ Cardinality({t \in hostTimers : t.kind = "hover"}) <= 1
  /\ (evLast.op = "mousemove" /\ evLast.pendingBefore)
       => hostTimers = evLast.timersBefore
  /\ \A i \in 2..Len(hoverPolls) :
       hoverPolls[i].at - hoverPolls[i - 1].at >= HoverThrottleDelay

\* C19 witness: after a hover resolution, a mouse-move event arrived while
\* the next hover timer was pending.
C19_Witness ==
  /\ evLast.op = "mousemove"
  /\ evLast.pendingBefore
  /\ hoverPolls # <<>>
  /\ \E t \in hostTimers : t.kind = "hover" /\ t.due > clock

\* C17: a hold timer armed by a touch-start is disarmed by any touch-move
\* or touch-end delivered before the hold duration elapses: onHold is never
\* invoked for a touch that moved or ended before its hold timer came due.
C17_NoHoldAfterMoveOrEnd ==
  (evLast.op = "timer" /\ evLast.timer.kind = "hold"
     /\ evLast.fired # <<>>)
    => ~ \E e \in touchLog :
           /\ e.identifier = evLast.timer.payload[1].identifier
           /\ e.at < evLast.timer.due

\* the touch-end over a shape before taps[i] left a tap record that
\* taps[i] lies within: less than DOUBLE_TAP_DELAY earlier, less than
\* TOUCH_MOVE_THRESHOLD away on both axes, and not itself a double-tap
isDoubleTapEvent(tap) ==
  \E i \in 1..Len(tap.fired) : tap.fired[i].type = "doubletap"

isTapEvent(tap) ==
  \E i \in 1..Len(tap.fired) : tap.fired[i].type = "tap"

WithinDoubleTap(i) ==
  /\ i > 1
  /\ ~ isDoubleTapEvent(taps[i - 1])
  /\ taps[i].at - taps[i - 1].at < DOUBLE_TAP_DELAY
  /\ Abs(taps[i].x - taps[i - 1].x) < TOUCH_MOVE_THRESHOLD
  /\ Abs(taps[i].y - taps[i - 1].y) < TOUCH_MOVE_THRESHOLD

\* C20: a touch-end over a shape is dispatched as a double-tap only if the
\* previous tap was recorded within the double-tap time window and within
\* the position threshold on both axes; a tap outside either bound is
\* dispatched as an independent tap; after a double-tap the tap record is
\* reset, so the next tap starts a new sequence.
C20_DoubleTapOnlyWithinBounds ==
  /\ \A i \in 1..Len(taps) :
       /\ isDoubleTapEvent(taps[i]) => WithinDoubleTap(i)
       /\ (~ WithinDoubleTap(i) /\ taps[i].onTap)
            => isTapEvent(taps[i]) /\ ~ isDoubleTapEvent(taps[i])
  /\ (evLast.op = "touchend" /\ taps # <<>>
        /\ evLast.fired = taps[Len(taps)].fired
        /\ isDoubleTapEvent(taps[Len(taps)]))
       => pointer.lastTapTime = 0 /\ ~ pointer.lastTapPosition.present

\* C20 witness: a double-tap was dispatched, and before it a tap that lay
\* within the time window but 15 away on the y axis was dispatched as a tap.
C20_Witness ==
  /\ Len(taps) >= 3
  /\ isDoubleTapEvent(taps[Len(taps)])
  /\ evLast.op = "touchend"
  /\ \E i \in 2..Len(taps) - 1 :
       /\ taps[i].at - taps[i - 1].at < DOUBLE_TAP_DELAY
       /\ taps[i].x = taps[i - 1].x
       /\ Abs(taps[i].y - taps[i - 1].y) >= TOUCH_MOVE_THRESHOLD
       /\ isTapEvent(taps[i])

----------------------------------------------------------------------------
(* Claims: QuadTree structure                                              *)

\* every entry held by a node of the tree, node by node
RECURSIVE Stored(_)
Stored(t) ==
  t.objects
  \o (IF Len(t.nodes) = 0 THEN <<>>
      ELSE Stored(t.nodes[1]) \o Stored(t.nodes[2]) \o Stored(t.nodes[3])
           \o Stored(t.nodes[4]))

\* the number of nodes that hold obj
Holders(obj) ==
  Cardinality({i \in 1..Len(Stored(tree)) : Stored(tree)[i] = obj})

\* C23: after any sequence of insert, remove and clear calls, size() equals
\* the inserts minus the removes that returned true since the last clear,
\* and every stored object is held by exactly one node, right after a split
\* included.
C23_SizeCountsEachObjectOnce ==
  /\ size(tree) = qtTally.inserts - qtTally.removed
  /\ Len(Stored(tree)) = Cardinality(qtLive)
  /\ \A obj \in qtLive : Holders(obj) = 1

\* C23 witness: the tree has been cleared, has split again on a later
\* insert, and a remove has returned true and another false since.
C23_Witness ==
  /\ qtTally.clears > 0
  /\ Len(tree.nodes) = 4
  /\ qtTally.removed > 0
  /\ qtTally.removeCalls > qtTally.removed
  /\ qtLive # {}

\* the midpoint lines of a node
VerticalMidpoint(t) == t.bounds.x + (t.bounds.width \div 2)
HorizontalMidpoint(t) == t.bounds.y + (t.bounds.height \div 2)

\* obj straddles or touches one of the midpoint lines of t
OnMidpointLine(t, obj) ==
  \/ obj.x <= VerticalMidpoint(t) /\ VerticalMidpoint(t) <= obj.x + obj.width
  \/ /\ obj.y <= HorizontalMidpoint(t)
     /\ HorizontalMidpoint(t) <= obj.y + obj.height

\* obj lies strictly on the side of child k of both midpoint lines of t
OnChildSide(t, k, obj) ==
  /\ IF k \in {1, 4} THEN obj.x > VerticalMidpoint(t)
     ELSE obj.x + obj.width < VerticalMidpoint(t)
  /\ IF k \in {1, 2} THEN obj.y + obj.height < HorizontalMidpoint(t)
     ELSE obj.y > HorizontalMidpoint(t)

RECURSIVE StraddlerRule(_)
StraddlerRule(t) ==
  Len(t.nodes) # 0 =>
    /\ \A i \in 1..Len(t.objects) : OnMidpointLine(t, t.objects[i])
    /\ \A k \in 1..4 :
         /\ \A i \in 1..Len(Stored(t.nodes[k])) :
              OnChildSide(t, k, Stored(t.nodes[k])[i])
         /\ StraddlerRule(t.nodes[k])

\* C24: the straddler rule: in every node with children, each object
\* stored directly in the node straddles or touches one of the node's
\* midpoint lines, and each object in a child lies strictly on that child's
\* side of both midpoint lines; this holds after every insert and
\* redistribution.
C24_StraddlerRule == StraddlerRule(tree)

\* C24 witness: an insert has left the root with children, an object on
\* its midpoint line held by the root itself and objects five levels down.
C24_Witness ==
  /\ qtLast.op = "insert"
  /\ Len(tree.nodes) = 4
  /\ treeDepth(tree) = maxLevels
  /\ \E i \in 1..Len(tree.objects) :
       tree.objects[i].x + tree.objects[i].width = VerticalMidpoint(tree)

\* every node has no children or four, and none lies below level maxLevels;
\* a childless node above maxLevels holds at most maxObjects objects
RECURSIVE WellShaped(_)
WellShaped(t) ==
  /\ Len(t.nodes) \in {0, 4}
  /\ t.level <= maxLevels
  /\ (Len(t.nodes) = 0 /\ t.level < maxLevels) => Len(t.objects) <= maxObjects
  /\ \A k \in 1..Len(t.nodes) :
       /\ t.nodes[k].level = t.level + 1
       /\ WellShaped(t.nodes[k])

\* every node of t with children holds more than maxObjects objects, its
\* children's included
RECURSIVE SplitsHeldMore(_)
SplitsHeldMore(t) ==
  Len(t.nodes) # 0 =>
    /\ size(t) > maxObjects
    /\ \A k \in 1..4 : SplitsHeldMore(t.nodes[k])

\* a node that has children after a step and had none before it held more
\* than maxObjects objects when it split: childless, it held directly the
\* objects that the step left in it and below it
RECURSIVE NewSplitsHeldMore(_, _)
NewSplitsHeldMore(old, new) ==
  IF Len(new.nodes) = 0 THEN TRUE
  ELSE IF Len(old.nodes) = 0 THEN SplitsHeldMore(new)
  ELSE \A k \in 1..4 : NewSplitsHeldMore(old.nodes[k], new.nodes[k])

\* C25: a node splits only once its capacity is exceeded and the depth
\* allows: every node has 0 or 4 children, no node lies at a level above
\* maxLevels (5), a node has children only if it held more than maxObjects
\* (10) objects at some insert, and every childless node at a level below 5
\* holds at most 10 objects.
C25_SplitOnlyWhenOverCapacity ==
  /\ [] WellShaped(tree)
  /\ [][NewSplitsHeldMore(tree, tree')]_vars

\* C25 witness: an insert has split the tree down to level 5, where a
\* childless node holds more than maxObjects objects.
C25_Witness ==
  /\ qtLast.op = "insert"
  /\ treeDepth(tree) = maxLevels
  /\ Len(tree.nodes[2].nodes[2].nodes[2].nodes[2].nodes[2].objects)
       > maxObjects

----------------------------------------------------------------------------
(* Claims: dirty-region merging                                            *)

Area(r) == r.width * r.height

\* the last call was a markDirty whose rectangle overlaps several tracked
\* regions
MarkedOverSeveral ==
  /\ dirtyLast.op = "markDirty"
  /\ Cardinality(Touching(dirtyLast.before.dirtyRegions, dirtyLast.region))
       >= 2

\* C26: when the rectangle passed to markDirty overlaps several tracked
\* regions, exactly one of them is chosen as the merge target, one whose
\* bounding-box union with the rectangle has the smallest area among all
\* overlapping tracked regions; every other region is unchanged.
C26_SmallestUnionIsMergeTarget ==
  MarkedOverSeveral =>
    LET before == dirtyLast.before.dirtyRegions
        after == dirty.dirtyRegions
        r == dirtyLast.region
    IN \E i \in Touching(before, r) :
         /\ after = [before EXCEPT ![i] = mergeRegions(before[i], r)]
         /\ \A j \in Touching(before, r) :
              Area(mergeRegions(before[i], r))
                <= Area(mergeRegions(before[j], r))

\* the rectangles held by the dirty index and those of the flat list, as
\* bags
RECURSIVE BoundsOfAll(_)
BoundsOfAll(objs) ==
  IF objs = <<>> THEN <<>>
  ELSE <<BoundsOf(Head(objs))>> \o BoundsOfAll(Tail(objs))

IndexRectangles == BoundsOfAll(Stored(dirty.spatialDirtyIndex))
ListRectangles == dirty.dirtyRegions

\* how often the rectangle occurs in the sequence
Occurrences(s, r) == Cardinality({i \in 1..Len(s) : s[i] = r})

\* the two sequences hold the same rectangles, each as often
SameMultiset(s, u) ==
  /\ Len(s) = Len(u)
  /\ \A i \in 1..Len(s) : Occurrences(s, s[i]) = Occurrences(u, s[i])

\* C27: after any sequence of markDirty, clearDirtyRegions and
\* updateSpatialBounds calls the rectangles in the dirty index are exactly
\* the rectangles of the flat list, as multisets: no stale index entry for
\* a merged or evicted region, no list region missing from the index; and
\* updateSpatialBounds leaves the flat list unchanged.
C27_IndexMirrorsList ==
  /\ SameMultiset(IndexRectangles, ListRectangles)
  /\ dirtyLast.op = "updateSpatialBounds" =>
       dirty.dirtyRegions = dirtyLast.before.dirtyRegions

\* the last call was a markDirty that merged its rectangle into a region
MarkedAndMerged == dirtyLast.op = "markDirty" /\ dirtyLast.merged

\* C28 as stated: whenever markDirty merges, the merged region has an area
\* of at least the sum of the areas of the tracked region and of the new
\* rectangle.
C28_MergedAreaAtLeastSum ==
  MarkedAndMerged =>
    Area(dirty.dirtyRegions[dirtyLast.index])
      >= Area(dirtyLast.before.dirtyRegions[dirtyLast.index])
         + Area(dirtyLast.region)

\* C28 amended: whenever markDirty merges, the merged region has an area
\* of at least the area of the tracked region and at least the area of the
\* new rectangle.
C28_MergedAreaAtLeastEach ==
  MarkedAndMerged =>
    /\ Area(dirty.dirtyRegions[dirtyLast.index])
         >= Area(dirtyLast.before.dirtyRegions[dirtyLast.index])
    /\ Area(dirty.dirtyRegions[dirtyLast.index]) >= Area(dirtyLast.region)

\* C28 witness: a rectangle was merged into a region that shares area with
\* it; the merged region is larger than the rectangle and smaller than the
\* two together.
C28_Witness ==
  /\ MarkedAndMerged
  /\ Area(dirty.dirtyRegions[dirtyLast.index]) > Area(dirtyLast.region)
  /\ Area(dirty.dirtyRegions[dirtyLast.index])
       < Area(dirtyLast.before.dirtyRegions[dirtyLast.index])
         + Area(dirtyLast.region)

----------------------------------------------------------------------------
(* Claims: batching                                                        *)

\* the last call was a flush with a context during which nothing threw
FlushedAll == smLast.op = "flush" /\ smLast.hadContext /\ ~ smLast.threw

\* the routine calls that the flush made, in order
Invoked == SubSeq(ctx.log, Len(smLast.ctxBefore.log) + 1, Len(ctx.log))

\* every element of q occurs exactly once in s, and s holds nothing else
IsPermutation(s, q) ==
  /\ Len(s) = Len(q)
  /\ \A i \in 1..Len(q) : Cardinality({k \in 1..Len(s) : s[k] = q[i]}) = 1

\* the ids of the operations, in order
IdsOf(ops) == [i \in 1..Len(ops) |-> ops[i].id]

\* C29: when flush(ctx) is given a context and no shape routine throws,
\* the routine of every queued operation is invoked exactly once: the
\* batches of the three grouping passes form a partition of the queue, for
\* every queue length up to maxQueueSize.
C29_EveryOperationInvokedOnce ==
  FlushedAll =>
    \E batches \in {createOptimizedBatches(smLast.queueBefore)} :
      \E flat \in {Flatten(batches)} :
        /\ IsPermutation(flat, smLast.queueBefore)
        /\ \A b \in 1..Len(batches) : batches[b] # <<>>
        /\ Invoked = IdsOf(flat)

\* C29 witness: a queue one short of maxQueueSize was flushed with a
\* context, in more than three batches.
C29_Witness ==
  /\ FlushedAll
  /\ Len(smLast.queueBefore) = maxQueueSize - 1
  /\ Len(createOptimizedBatches(smLast.queueBefore)) > 3

\* the number of operations of q with the shape and the state key of op
StateGroupSize(q, op) ==
  Cardinality({i \in 1..Len(q) :
                 /\ q[i].shape = op.shape
                 /\ getStateKey(q[i].options) = getStateKey(op.options)})

\* C30: every batch replayed by flush holds only operations of one shape
\* type with one identical paint-state key; a state group of more than 10
\* operations is chunked into batches of at most 25, and a state group of
\* 10 or fewer is a single batch.
C30_BatchesHomogeneousAndSized ==
  FlushedAll =>
    \E batches \in {createOptimizedBatches(smLast.queueBefore)} :
      \A b \in 1..Len(batches) :
        \E n \in {StateGroupSize(smLast.queueBefore, batches[b][1])} :
          /\ \A k \in 1..Len(batches[b]) :
               /\ batches[b][k].shape = batches[b][1].shape
               /\ getStateKey(batches[b][k].options)
                    = getStateKey(batches[b][1].options)
          /\ IF n > 10 THEN Len(batches[b]) <= 25 ELSE Len(batches[b]) = n

\* C30 witness: the flushed queue held a state group of more than 25
\* operations, one of 11 to 25 and one of at most 10.
C30_Witness ==
  /\ FlushedAll
  /\ Len(smLast.queueBefore) >= 46
  /\ \E sizes \in {{StateGroupSize(smLast.queueBefore, smLast.queueBefore[i]) :
                      i \in 1..Len(smLast.queueBefore)}} :
       /\ \E n \in sizes : n > 25
       /\ \E n \in sizes : n \in 11..25
       /\ \E n \in sizes : n <= 10

----------------------------------------------------------------------------
(* Claims: hit-testing order and registered bounds                         *)

\* the shape of a set drawn last
Topmost(ids) ==
  LET last == CHOOSE i \in 1..Len(drawOrder) :
                /\ drawOrder[i] \in ids
                /\ \A j \in (i + 1)..Len(drawOrder) : drawOrder[j] \notin ids
  IN drawOrder[last]

\* C21: hit-testing resolves a point to the topmost shape: when several
\* registered shapes contain the point, findShapeAt returns the one drawn
\* last, whichever quadtree node each shape is stored in.
C21_ResolveReturnsTopmost ==
  (hitLast.op = "findShapeAt" /\ Containing(hitLast.x, hitLast.y) # {}) =>
    /\ hitLast.result.found
    /\ hitLast.result.shapeId = Topmost(Containing(hitLast.x, hitLast.y))

\* the size the sizing rules give a shape: both radii doubled, else the
\* radius doubled, else the explicit width and height, each 100 when absent
ShapeSize(options) ==
  IF options.radiusX # UndefNum /\ options.radiusY # UndefNum
  THEN <<options.radiusX * 2, options.radiusY * 2>>
  ELSE IF options.radius # UndefNum
       THEN <<options.radius * 2, options.radius * 2>>
       ELSE << IF options.width # UndefNum THEN options.width ELSE 100,
               IF options.height # UndefNum THEN options.height ELSE 100 >>

\* the shape a set call registered
Registered(shapeId) ==
  interactive.registeredShapes[
    findIndexByShapeId(interactive.registeredShapes, shapeId)]

\* the last call was a set that registered its shape
SetRegistered ==
  /\ hitLast.op = "set"
  /\ \/ hitLast.options.onClick \/ hitLast.options.onHover
     \/ hasTouchHandlers(hitLast.options)

\* C22: the bounding box registered for an interactive shape is offset by
\* the owning layout's position: its origin is the shape's (x, y) plus the
\* layout's (x, y), its size the one the sizing rules give.
C22_BoundsOffsetByLayout ==
  SetRegistered =>
    LET layoutConfig == layoutConfigOf(interactive, hitLast.layoutName)
    IN Registered(hitLast.shapeId).bounds =
         Rect(hitLast.options.x + layoutConfig.x,
              hitLast.options.y + layoutConfig.y,
              ShapeSize(hitLast.options)[1], ShapeSize(hitLast.options)[2])

\* the sizing rules alone hold for every registered shape
C22_SizeRulesHold ==
  SetRegistered =>
    /\ Registered(hitLast.shapeId).bounds.width =
         ShapeSize(hitLast.options)[1]
    /\ Registered(hitLast.shapeId).bounds.height =
         ShapeSize(hitLast.options)[2]

----------------------------------------------------------------------------
(* Claims: order inside a batch                                            *)

\* the place of the routine call of operation id among the calls s
PlaceOf(s, id) == CHOOSE k \in 1..Len(s) : s[k] = id

\* C31: the grouping passes preserve relative order within each final
\* batch: of two operations that end up in the same batch, the one queued
\* earlier (the one with the smaller id) is executed earlier, for state
\* groups of every size.
C31_BatchKeepsQueueOrder ==
  FlushedAll =>
    \E batches \in {createOptimizedBatches(smLast.queueBefore)} :
      \E invoked \in {Invoked} :
        \A b \in 1..Len(batches) :
          \A i, j \in 1..Len(batches[b]) :
            batches[b][i].id < batches[b][j].id =>
              PlaceOf(invoked, batches[b][i].id)
                < PlaceOf(invoked, batches[b][j].id)

----------------------------------------------------------------------------
(* Claims: paint state at the call of a shape routine                      *)

\* the paint state that options describe, with the defaults of a fresh
\* context for the fields they do not set
OwnPaintState(options) ==
  LET shadowed == options.shadow # NoShadow
      glowing == options.glow # NoGlow
  IN [fillStyle |-> OrElse(options.fill, NewContext.fillStyle),
      strokeStyle |-> OrElse(options.stroke, NewContext.strokeStyle),
      lineWidth |-> OrElseNum(options.strokeWidth, NewContext.lineWidth),
      globalAlpha |-> IF options.opacity # UndefNum THEN options.opacity
                      ELSE NewContext.globalAlpha,
      globalCompositeOperation |->
        OrElse(options.blendMode, NewContext.globalCompositeOperation),
      shadowOffsetX |-> IF shadowed /\ ~ glowing THEN options.shadow.offsetX
                        ELSE NewContext.shadowOffsetX,
      shadowOffsetY |-> IF shadowed /\ ~ glowing THEN options.shadow.offsetY
                        ELSE NewContext.shadowOffsetY,
      shadowBlur |-> IF glowing THEN options.glow.blur
                     ELSE IF shadowed THEN options.shadow.blur
                     ELSE NewContext.shadowBlur,
      shadowColor |-> IF glowing THEN options.glow.color
                      ELSE IF shadowed THEN options.shadow.color
                      ELSE NewContext.shadowColor]

\* the routine calls made by the last flush, with their paint states
InvokedCalls ==
  SubSeq(ctx.calls, Len(smLast.ctxBefore.calls) + 1, Len(ctx.calls))

\* C32: at the moment each operation's shape routine is invoked during
\* flush(ctx), the context's paint state (fill and stroke colours, line
\* width, opacity, blend mode, shadow) equals the paint state described by
\* that operation's own options, with defaults for the fields it does not
\* set; no value set for an earlier batch or an earlier operation of the
\* same flush is still in effect.
C32_RoutineSeesOwnPaintState ==
  (smLast.op = "flush" /\ smLast.hadContext) =>
    \E calls \in {InvokedCalls} :
      \A k \in 1..Len(calls) :
        calls[k].paint = OwnPaintState(calls[k].options)

\* C32, for the opacity alone
C32_RoutineSeesOwnOpacity ==
  (smLast.op = "flush" /\ smLast.hadContext) =>
    \E calls \in {InvokedCalls} :
      \A k \in 1..Len(calls) :
        calls[k].paint.globalAlpha
          = OwnPaintState(calls[k].options).globalAlpha

----------------------------------------------------------------------------
(* Claims: retry delay                                                     *)

----------------------------------------------------------------------------
(* Claims: fill-style cache                                                *)

\* C34: the fill-style cache is capped: after any sequence of gradient and
\* pattern lookups, flushes and cleanup calls, the gradient cache never
\* holds more than 100 entries and the pattern cache never holds more than
\* 50 entries.
C34_FillCacheCapped ==
  /\ Len(fillCache.gradientCache) <= gradientCacheMax
  /\ Len(fillCache.patternCache) <= patternCacheMax

\* C34, for the moment after a cleanup call only
C34_CappedAfterCleanup ==
  cacheLast.op = "cleanup" => C34_FillCacheCapped

----------------------------------------------------------------------------
(* Claims: the interactive index and the registered-shape table            *)

\* the number of entries of the index with the id
EntriesOf(entries, shapeId) ==
  Cardinality({i \in 1..Len(entries) : entries[i].id = shapeId})

\* the index h.spatialIndex holds one entry per shape of h.registeredShapes,
\* with the bounds stored for the shape, and nothing else
MirrorsRegistry(h) ==
  \E entries \in {Stored(h.spatialIndex)} :
    /\ \A k \in 1..Len(h.registeredShapes) :
         /\ EntriesOf(entries, h.registeredShapes[k].shapeId) = 1
         /\ \E i \in 1..Len(entries) :
              entries[i] = SpatialObject(h.registeredShapes[k].shapeId,
                                         h.registeredShapes[k].bounds)
    /\ \A i \in 1..Len(entries) :
         findIndexByShapeId(h.registeredShapes, entries[i].id) # 0

\* C35: after any sequence of register (set) and updateBounds calls on the
\* interactive index, the spatial index contains exactly one entry per
\* registered shapeId, with bounds equal to the bounds stored for that
\* shape in the registered-shape table, and no entry for any other id;
\* re-registering a shapeId never leaves its previous entry behind.
C35_IndexMirrorsRegistry == MirrorsRegistry(interactive)

\* C35 witness: a shapeId whose entry was held by a child node of the index
\* has been registered again with other bounds.
C35_Witness ==
  /\ hitLast.op = "set"
  /\ Len(hitLast.before.spatialIndex.nodes) > 0
  /\ \E k \in {findIndexByShapeId(hitLast.before.registeredShapes,
                                  hitLast.shapeId)} :
       /\ k # 0
       /\ hitLast.before.registeredShapes[k].bounds
            # calculateShapeBounds(hitLast.options)
       /\ findIndexById(hitLast.before.spatialIndex.objects,
                        hitLast.shapeId) = 0
       /\ interactive # hitLast.before

\* C35 witness: the index has been rebuilt by updateBounds(100, 100) with a
\* shape beyond its new bounds and has split.
C35_WitnessResized ==
  /\ hitLast.op = "updateBounds"
  /\ interactive.spatialIndex.bounds.width = 100
  /\ Len(interactive.spatialIndex.nodes) > 0
  /\ \E k \in 1..Len(interactive.registeredShapes) :
       interactive.registeredShapes[k].bounds.x > 100

----------------------------------------------------------------------------
(* Claims: accepted operations are executed                                *)

\* the ids of the operations that queue has accepted so far
Accepted == 1..(opNext - 1)

\* C37: every operation accepted by queue (every shape accepted by
\* layout.draw) is executed against the layout's surface context by a
\* later flush(ctx): no accepted operation leaves the queue without having
\* been executed, whatever number of operations is queued between two
\* explicit flushes.
C37_AcceptedIsQueuedOrExecuted ==
  \E queued \in {{drawQueue[i].id : i \in 1..Len(drawQueue)}},
     executed \in {SeqToSet(ctx.log)} :
    \A id \in Accepted : id \in queued \/ id \in executed

\* C37, for fewer than maxQueueSize operations queued between two explicit
\* flushes
C37_FewerThanMaxAreExecuted ==
  sinceFlush < maxQueueSize /\ opNext <= maxQueueSize =>
    C37_AcceptedIsQueuedOrExecuted

----------------------------------------------------------------------------
(* Claims: save and restore                                                *)

\* C38: every flush(ctx) that calls ctx.save() calls ctx.restore() exactly
\* once before control leaves flush, on every path including the one where
\* an operation's shape routine throws, so the context's save-stack depth
\* after flush equals its depth before flush.
C38_FlushBalancesSaveRestore ==
  (smLast.op = "flush" /\ smLast.hadContext) =>
    Len(ctx.stack) = Len(smLast.ctxBefore.stack)

\* C38, for the flushes during which no shape routine throws
C38_BalancedWithoutThrow ==
  (smLast.op = "flush" /\ smLast.hadContext /\ ~ smLast.threw) =>
    /\ Len(ctx.stack) = Len(smLast.ctxBefore.stack)
    /\ PaintState(ctx) = PaintState(smLast.ctxBefore)

----------------------------------------------------------------------------
(* Claims: hover at the resting pointer                                    *)

\* the pointer is at rest: mouse-move events have been delivered and no
\* hover poll is pending, so nothing changes until the next event
AtRest ==
  /\ pointer.enabled
  /\ mouseAt.present
  /\ \A t \in hostTimers : t.kind # "hover"

\* the shape registered under the last mouse-move event
UnderPointer ==
  hitShapeAt(interactive,
             getCanvasCoordinates(pointer.canvasElement, mouseAt.event).x,
             getCanvasCoordinates(pointer.canvasElement, mouseAt.event).y)

\* C39: when the pointer moves and then comes to rest over a registered
\* shape that has a hover handler and is not the currently hovered shape,
\* the hover state eventually reflects that shape: the last hover poll
\* resolves the pointer's final position, so the handler is invoked for the
\* shape under the resting pointer even when the final mouse-move events
\* arrive while a throttle timer is pending.  Once the pointer is at rest
\* with no poll pending nothing changes any more, so by then the hovered
\* shape is the one under the pointer and the last poll was of its place.
C39_HoverReflectsRestingPointer ==
  AtRest =>
    \E shape \in {UnderPointer} :
      (shape.found /\ shape.options.onHover) =>
        /\ pointer.currentHoveredShape = shape.shapeId
        /\ hoverPolls # <<>>
        /\ hoverPolls[Len(hoverPolls)].resolved = shape.shapeId

\* C39, for a pointer whose last mouse-move event started the last poll
C39_HoverReflectsPolledEvent ==
  (AtRest /\ evLast.op = "timer" /\ evLast.timer.payload[1] = mouseAt.event) =>
    \E shape \in {UnderPointer} :
      (shape.found /\ shape.options.onHover) =>
        pointer.currentHoveredShape = shape.shapeId

----------------------------------------------------------------------------
(* Claims: resetPerformanceMetrics                                         *)

C36_ResetKeepsRetries ==
  smLast.op = "reset" =>
    /\ smLast.after.metrics = NewMetrics
    /\ smLast.after.failedOperations = smLast.before.failedOperations
    /\ smLast.after.retryTimers = smLast.before.retryTimers

\* a reset with a retry pending, counters that are not zero and nothing
\* else to lose
C36_ResetWithRetryPending ==
  /\ smLast.op = "reset"
  /\ smLast.before.failedOperations # {}
  /\ smLast.before.retryTimers # <<>>
  /\ smLast.before.metrics # NewMetrics

\* a reset of a layout that had handed its canvas back to the pool
C36_ResetWithPooledSurface ==
  /\ smLast.op = "reset"
  /\ smLast.before.canvasPool # <<>>
  /\ smLast.after.canvasPool = <<>>

----------------------------------------------------------------------------
(* Claims: ownership of pooled canvases                                    *)

\* the pool holds at most one entry per canvas, holds no canvas that is
\* handed out, and a getCanvas call that follows a getCanvas call yields
\* another canvas
NoSurfaceOwnedTwice ==
  /\ \A i, j \in 1..Len(canvasPool) :
       i # j => canvasPool[i].canvas # canvasPool[j].canvas
  /\ \A held \in poolHeld :
       \A i \in 1..Len(canvasPool) : canvasPool[i].canvas # held.canvas
  /\ (poolLast.op = "getCanvas" /\ ~ poolLast.threw)
       => poolLast.canvas # poolLast.previous

\* C40: no surface is owned twice: for any sequence of getSurface and
\* returnSurface calls in which every returned surface was previously
\* obtained from getSurface, the pool never holds two entries for the same
\* surface and a surface handed out by getSurface is not in the pool, so two
\* getSurface calls with no returnSurface between them never yield the same
\* surface.  (SpecPoolAgain: every canvas returned came from getCanvas.)
C40_NoSurfaceOwnedTwice == NoSurfaceOwnedTwice

\* C40, for the sequences of SpecPool, in which a canvas is returned by the
\* caller who holds it, once: no canvas is owned twice, and every canvas
\* owned is one that getCanvas created
C40_OwnedOnceWhenReturnedOnce ==
  /\ NoSurfaceOwnedTwice
  /\ \A held \in poolHeld : held.canvas \in 1..(poolNext - 1)
  /\ \A i \in 1..Len(canvasPool) :
       canvasPool[i].canvas \in 1..(poolNext - 1)
====
